---- MODULE Spec2Model ----
(***************************************************************************)
(* Model of the risk-list reconciliation worker (src/user-risk-demo.js):   *)
(* the scheduled cycle of handleRequest, the paginated fetchers, the KV    *)
(* snapshot of the expected membership and the PATCH-based sync of the     *)
(* three Gateway lists.                                                    *)
(***************************************************************************)
EXTENDS Integers, Sequences, FiniteSets, TLC

VARIABLES
    riskSource,      \* the risk-scoring source: classification of the users and shape of the listing
    remote,          \* the Gateway list store: tier -> set of item values
    kv,              \* USER_RISK_KV: tier -> stored expected state (or absent)
    pc,              \* position of handleRequest('notfetch') : idle, store, sync, done
    idx,             \* index in TierOrder of the tier the store/sync step is at
    userRiskResult,  \* handleRequest local: success and loop exit of the latest fetchAllUserRiskScores
    userRiskScores,  \* handleRequest local: the users returned by fetchAllUserRiskScores
    storeResult,     \* tier -> return value of storeExpectedStateInKV in this cycle
    syncResult,      \* tier -> return value of syncGatewayListFromKV in this cycle
    syncObs,         \* tier -> observation of what that sync did (fetch exit, diff, PATCH body)
    synced,          \* tier -> the latest sync returned success and no snapshot write happened since
    cycleOk,         \* every operation of the running cycle succeeded so far
    prevCycleOk,     \* the previous cycle ran to its end with every operation succeeding
    sourceStable,    \* the risk source did not change since the previous cycle started
    cyclesLeft,      \* number of cycles the trigger still starts
    faultsLeft,      \* number of failures the collaborators still produce
    api,             \* one call of makeApiRequest: attempt counter, responses met, waits, outcome
    recon,           \* one call of handleReconciliation: loop position, report, response
    manual,          \* one request to /api/update-risk-lists: position, env binding, response
    config,          \* env: the account id, the API token and the three list ids
    replace,         \* one call of updateGatewayList: position, tier, what it did, return value
    pages,            \* one call of a paginated fetcher, taken one loop iteration at a time
    second,            \* a second invocation of handleRequest (/api/force-cleanup) that overlaps the cycle
    cleanup,            \* one request to /api/force-cleanup: position, response
    health,              \* one request to /api/health: position, clock, the health object being built
    run                   \* one cycle taken request by request: position, loop state, running call, request count

vars == <<riskSource, remote, kv, pc, idx, userRiskResult, userRiskScores, storeResult, syncResult,
          syncObs, synced, cycleOk, prevCycleOk, sourceStable, cyclesLeft, faultsLeft, api,
          recon, manual, config, replace,
          pages,
          second,
          cleanup,
          health,
          run>>

\* the variables of the handlers other than the scheduled cycle, and the
\* configuration, which no handler changes
handlerVars == <<api, recon, manual, config, replace, pages, second, cleanup, health, run>>

----------------------------------------------------------------------------
(* Program constants *)

RiskPageLimit == 100
ListPageLimit == 50

(* Bounds of the model *)

NumEmails == 2        \* identifiers 1..NumEmails are the users that change tier
RiskPerPage == 1      \* records the risk source puts on one page
ListPerPage == 1      \* items the list store puts on one page
MaxCycles == 2        \* cycles started in one behaviour of SpecTwice
MaxFaults == 1        \* failures of the collaborators in one behaviour of Spec
MaxFailPage == 2      \* a page failure hits one of the first MaxFailPage pages

Tiers == {"high", "medium", "low"}
TierOrder == <<"high", "medium", "low">>
Levels == Tiers \cup {"none"}

Emails == 1..NumEmails
\* further identifiers: enough of them to fill more pages than a fetch reads
FillerCount == IF RiskPageLimit * RiskPerPage > ListPageLimit * ListPerPage
               THEN RiskPageLimit * RiskPerPage + 1
               ELSE ListPageLimit * ListPerPage + 1
MaxId == NumEmails + FillerCount
Fillers == (NumEmails + 1)..MaxId
BigList == (NumEmails + 1)..(NumEmails + ListPageLimit * ListPerPage + 1)

Min(a, b) == IF a < b THEN a ELSE b

ToSet(s) == {s[i] : i \in 1..Len(s)}

\* new Set(array): the distinct values in first-insertion order (the places
\* of the first occurrences are found once, then read)
NewSet(s) ==
    CHOOSE set \in {[k \in 1..Len(firsts) |-> s[firsts[k]]] :
                       firsts \in {SelectSeq([i \in 1..Len(s) |-> i],
                                             LAMBDA i : \A j \in 1..(i - 1) : s[j] # s[i])}} : TRUE

\* Set.prototype.has on a set kept as its insertion-ordered sequence
Has(set, x) == \E i \in 1..Len(set) : set[i] = x

\* setsEqual(setA, setB)
setsEqual(setA, setB) ==
    IF Len(setA) # Len(setB) THEN FALSE
    ELSE \A i \in 1..Len(setA) : Has(setB, setA[i])

----------------------------------------------------------------------------
(* The external collaborators *)

\* the order in which the list store serves the items of a list
ItemsOf(S) == SelectSeq([i \in 1..MaxId |-> i], LAMBDA i : i \in S)

\* total_pages of a collection of n records served per records a page
TotalPages(n, per) == IF n = 0 THEN 1 ELSE (n + per - 1) \div per

\* the records on page p
PageOf(s, p, per) == SubSeq(s, (p - 1) * per + 1, Min(p * per, Len(s)))

\* the users the risk source lists: the classified users in identifier order;
\* shape "dup" lists the first user a second time (a user that moved to a
\* later page between two page requests); shape "big" is followed by fillers
\* of level low, one more than the pages of a fetch can hold
UserRecord(e, l) == [email |-> e, max_risk_level |-> l]

RiskListing(src) ==
    LET classified == SelectSeq([i \in 1..NumEmails |-> i], LAMBDA e : src.level[e] # "none")
        small == [i \in 1..Len(classified) |-> UserRecord(classified[i], src.level[classified[i]])]
        bigLen == RiskPageLimit * RiskPerPage + 1 - Len(small)
    IN  IF src.shape = "dup" /\ Len(small) > 0 THEN Append(small, small[1])
        ELSE IF src.shape = "big"
             THEN small \o [i \in 1..bigLen |-> UserRecord(NumEmails + i, "low")]
        ELSE small

\* the Gateway list store applying the body of a PATCH to a list
ApplyIncremental(list, patchBody) ==
    (list \ ToSet(patchBody.remove)) \cup {patchBody.append[i].value : i \in 1..Len(patchBody.append)}

----------------------------------------------------------------------------
(* Paginated fetchers *)

NoFault == [at |-> 0, kind |-> "none"]

\* the state of a pagination loop before its first iteration
LoopStart == [page |-> 1, hasMore |-> TRUE, totalRequests |-> 0, all |-> <<>>, exit |-> "run"]

\* (variant: the page counter is not advanced)
nextPage_Mut(page) == page

\* page++
nextPage(page) == page + 1

\* (variant: the loop goes on as long as the source announces more pages)
riskLoopContinues_Mut(st) == st.hasMore

\* the condition of the while loop of fetchAllUserRiskScores
riskLoopContinues(st) == st.hasMore /\ st.totalRequests < RiskPageLimit

\* one iteration of the while loop of fetchAllUserRiskScores, or the exit
\* from the loop when its condition is false; fault.at is the
\* page whose request fails, by an unsuccessful body ("fail") or by an
\* exception out of makeApiRequest / response.json() ("throw")
RiskStep(st, listing, fault) ==
    IF st.exit # "run" THEN st
    ELSE IF ~riskLoopContinues(st)
    THEN [st EXCEPT !.exit = IF st.hasMore THEN "bound" ELSE "end"]
    ELSE IF fault.at = st.page /\ fault.kind = "throw" THEN [st EXCEPT !.exit = "catch"]
    ELSE IF fault.at = st.page /\ fault.kind = "fail"
    THEN [st EXCEPT !.totalRequests = @ + 1, !.exit = "fail"]
    ELSE [page |-> nextPage(st.page),
          hasMore |-> st.page < TotalPages(Len(listing), RiskPerPage),
          totalRequests |-> st.totalRequests + 1,
          all |-> st.all \o PageOf(listing, st.page, RiskPerPage),
          exit |-> "run"]

\* the evaluations lo..hi of the loop condition, each followed by the
\* iteration it lets in
RECURSIVE RiskLoop(_, _, _, _, _)
RiskLoop(st, lo, hi, listing, fault) ==
    IF st.exit = "run" /\ lo < hi
    THEN RiskLoop(RiskLoop(st, lo, (lo + hi) \div 2, listing, fault),
                  (lo + hi) \div 2 + 1, hi, listing, fault)
    ELSE RiskStep(st, listing, fault)

\* fetchAllUserRiskScores; exit names the way the loop was left: end (the
\* last page said page >= total_pages), bound (the request bound was
\* reached), fail (unsuccessful body), catch (exception); unfinished when
\* the loop is still running after RiskPageLimit iterations
fetchAllUserRiskScores(listing, fault) ==
    LET st == RiskLoop(LoopStart, 1, RiskPageLimit + 1, listing, fault)
    IN  IF st.exit \in {"bound", "end"}
        THEN [success |-> TRUE, users |-> st.all, totalRequests |-> st.totalRequests,
              pagesProcessed |-> st.page - 1, exit |-> st.exit]
        ELSE [success |-> FALSE, users |-> <<>>, totalRequests |-> st.totalRequests,
              pagesProcessed |-> st.page - 1,
              exit |-> IF st.exit = "run" THEN "unfinished" ELSE st.exit]

\* (variant: the loop goes on as long as the store announces more pages)
listLoopContinues_Mut(st) == st.hasMore

\* the condition of the while loop of fetchGatewayListItems
listLoopContinues(st) == st.hasMore /\ st.totalRequests < ListPageLimit

\* one iteration of the while loop of fetchGatewayListItems, or the exit
\* from the loop when its condition is false
ListStep(st, items, fault) ==
    IF st.exit # "run" THEN st
    ELSE IF ~listLoopContinues(st)
    THEN [st EXCEPT !.exit = IF st.hasMore THEN "bound" ELSE "end"]
    ELSE IF fault.at = st.page /\ fault.kind = "throw" THEN [st EXCEPT !.exit = "catch"]
    ELSE IF fault.at = st.page /\ fault.kind = "fail"
    THEN [st EXCEPT !.totalRequests = @ + 1, !.exit = "break"]
    ELSE [page |-> nextPage(st.page),
          hasMore |-> st.page < TotalPages(Len(items), ListPerPage),
          totalRequests |-> st.totalRequests + 1,
          all |-> st.all \o PageOf(items, st.page, ListPerPage),
          exit |-> "run"]

RECURSIVE ListLoop(_, _, _, _, _)
ListLoop(st, lo, hi, items, fault) ==
    IF st.exit = "run" /\ lo < hi
    THEN ListLoop(ListLoop(st, lo, (lo + hi) \div 2, items, fault),
                  (lo + hi) \div 2 + 1, hi, items, fault)
    ELSE ListStep(st, items, fault)

\* fetchGatewayListItems: error is TRUE when the returned object carries an
\* error field (only the catch branch sets one); the object never carries a
\* success field. exit as above, break for an unsuccessful body.
fetchGatewayListItems(list, fault) ==
    LET st == ListLoop(LoopStart, 1, ListPageLimit + 1, ItemsOf(list), fault)
    IN  IF st.exit = "catch"
        THEN [items |-> <<>>, error |-> TRUE, totalRequests |-> st.totalRequests,
              pagesProcessed |-> st.page - 1, exit |-> "catch"]
        ELSE [items |-> st.all, error |-> FALSE, totalRequests |-> st.totalRequests,
              pagesProcessed |-> st.page - 1,
              exit |-> IF st.exit = "run" THEN "unfinished" ELSE st.exit]

\* no call of a fetcher looked at by itself; asked is the sequence of the
\* page numbers put in the URLs handed to makeApiRequest
NoPages ==
    [fetcher |-> "none", tier |-> "none", fault |-> NoFault, risk |-> LoopStart,
     list |-> LoopStart, asked |-> <<>>]

----------------------------------------------------------------------------
(* Snapshot store and reconciler *)

\* the value of a list's key in USER_RISK_KV; reconciliationNeeded and
\* lastReconciliationAttempt tell whether the stored object carries the field
NoState ==
    [present |-> FALSE, emails |-> <<>>, riskLevel |-> "none", userCount |-> 0,
     reconciliationNeeded |-> FALSE, lastReconciliationAttempt |-> FALSE]

\* (variant: the medium filter also keeps the users of level low)
filterByLevel_Mut(users, level) ==
    SelectSeq(users, LAMBDA user : user.max_risk_level = level
                                   \/ (level = "medium" /\ user.max_risk_level = "low"))

\* users.filter(user => user.max_risk_level === level)
filterByLevel(users, level) == SelectSeq(users, LAMBDA user : user.max_risk_level = level)

\* users.map(user => user.email)
mapEmail(users) == [i \in 1..Len(users) |-> users[i].email]

\* (variant: the new identifiers are added to those of the previous snapshot)
storeExpectedStateInKV_Mut(old, users, riskLevel, putOut) ==
    IF putOut = "ok"
    THEN [state |-> [present |-> TRUE, emails |-> old.emails \o mapEmail(users),
                     riskLevel |-> riskLevel, userCount |-> Len(users),
                     reconciliationNeeded |-> FALSE, lastReconciliationAttempt |-> FALSE],
          result |-> [called |-> TRUE, success |-> TRUE, userCount |-> Len(users)]]
    ELSE [state |-> old,
          result |-> [called |-> TRUE, success |-> FALSE, userCount |-> -1]]

\* storeExpectedStateInKV: state is the value of the list's key afterwards;
\* putOut is the outcome of USER_RISK_KV.put
storeExpectedStateInKV(old, users, riskLevel, putOut) ==
    IF putOut = "ok"
    THEN [state |-> [present |-> TRUE, emails |-> mapEmail(users),
                     riskLevel |-> riskLevel, userCount |-> Len(users),
                     reconciliationNeeded |-> FALSE, lastReconciliationAttempt |-> FALSE],
          result |-> [called |-> TRUE, success |-> TRUE, userCount |-> Len(users)]]
    ELSE [state |-> old,
          result |-> [called |-> TRUE, success |-> FALSE, userCount |-> -1]]

NoStoreResult == [called |-> FALSE, success |-> FALSE, userCount |-> -1]

\* return values of syncGatewayListFromKV; a field the object does not carry
\* is -1 (numbers) or "" (strings)
SyncFailure(error) ==
    [called |-> TRUE, success |-> FALSE, added |-> -1, removed |-> -1, totalUsers |-> -1,
     method |-> "", message |-> "", error |-> error]

SyncSuccess(added, removed, totalUsers, method, message) ==
    [called |-> TRUE, success |-> TRUE, added |-> added, removed |-> removed,
     totalUsers |-> totalUsers, method |-> method, message |-> message, error |-> ""]

NoSyncResult ==
    [called |-> FALSE, success |-> FALSE, added |-> -1, removed |-> -1, totalUsers |-> -1,
     method |-> "", message |-> "", error |-> ""]

NoPatch == [append |-> <<>>, remove |-> <<>>]

NoObs ==
    [faulted |-> FALSE, fetched |-> FALSE, exit |-> "none", requests |-> 0, listFetches |-> 0, fetchError |-> FALSE, diffed |-> FALSE, expected |-> <<>>, current |-> <<>>,
     emailsToAdd |-> <<>>, emailsToRemove |-> <<>>, patchSent |-> FALSE, patchBody |-> NoPatch,
     patchOut |-> "none", before |-> {}]

\* (variant: nothing is found missing from the list)
emailsToAddOf_Mut(expectedEmails, currentEmails) ==
    SelectSeq(expectedEmails, LAMBDA email : FALSE)

\* the emails of the expected set that the current set does not hold
emailsToAddOf(expectedEmails, currentEmails) ==
    SelectSeq(expectedEmails, LAMBDA email : ~Has(currentEmails, email))

\* (variant: the membership test of the removal filter is not negated)
emailsToRemoveOf_Mut(expectedEmails, currentEmails) ==
    SelectSeq(currentEmails, LAMBDA email : Has(expectedEmails, email))

\* the emails of the current set that the expected set does not hold
emailsToRemoveOf(expectedEmails, currentEmails) ==
    SelectSeq(currentEmails, LAMBDA email : ~Has(expectedEmails, email))

\* (variant: the members already on the list are removed as well, as a
\* replace of the list by the new members would)
patchBodyOf_Mut(expectedState, emailsToAdd, emailsToRemove) ==
    [append |-> [i \in 1..Len(emailsToAdd) |->
                    [value |-> emailsToAdd[i], description |-> expectedState.riskLevel]],
     remove |-> emailsToRemove \o SelectSeq(expectedState.emails,
                                            LAMBDA email : ~Has(emailsToAdd, email))]

\* the body of the PATCH: append and remove are left out when empty
patchBodyOf(expectedState, emailsToAdd, emailsToRemove) ==
    [append |-> [i \in 1..Len(emailsToAdd) |->
                    [value |-> emailsToAdd[i], description |-> expectedState.riskLevel]],
     remove |-> emailsToRemove]

\* the fetch result is refused when it carries an error field
fetchRefused(currentResult) == currentResult.error

\* a PATCH is needed when the diff is not empty
changesNeeded(emailsToAdd, emailsToRemove) == Len(emailsToAdd) > 0 \/ Len(emailsToRemove) > 0

\* (variant: the value read from KV is not looked at)
noExpectedState_Mut(expectedState) == FALSE

\* !expectedStateStr: nothing is stored under the key of the list
noExpectedState(expectedState) == ~expectedState.present

\* syncGatewayListFromKV on one list: expectedState is the value under the
\* list's key, list the store's membership; kvOut is the outcome of
\* USER_RISK_KV.get, fault the failing page of the list fetch, patchOut the
\* outcome of the PATCH (ok, reject: body success=false, throw).
\* Returns the return value, the membership afterwards and the observation.
syncGatewayListFromKV(expectedState, list, kvOut, fault, patchOut) ==
    IF kvOut = "throw"
    THEN [result |-> SyncFailure("exception"), list |-> list, obs |-> [NoObs EXCEPT !.before = list]]
    ELSE IF noExpectedState(expectedState)
    THEN [result |-> SyncFailure("No expected state in KV"), list |-> list,
          obs |-> [NoObs EXCEPT !.before = list]]
    ELSE
    LET expectedEmails == NewSet(expectedState.emails)
        currentResult == fetchGatewayListItems(list, fault)
        obsFetch == [NoObs EXCEPT !.before = list, !.fetched = TRUE, !.exit = currentResult.exit,
                                 !.requests = currentResult.totalRequests,
                                 !.listFetches = 1,
                                  !.fetchError = currentResult.error,
                                  !.expected = expectedEmails]
    IN  IF fetchRefused(currentResult)
        THEN [result |-> SyncFailure("fetch error"), list |-> list, obs |-> obsFetch]
        ELSE
        LET currentEmails == NewSet(currentResult.items)
            emailsToAdd == emailsToAddOf(expectedEmails, currentEmails)
            emailsToRemove == emailsToRemoveOf(expectedEmails, currentEmails)
            obsDiff == [obsFetch EXCEPT !.diffed = TRUE, !.current = currentEmails,
                                        !.emailsToAdd = emailsToAdd,
                                        !.emailsToRemove = emailsToRemove]
            patchBody == patchBodyOf(expectedState, emailsToAdd, emailsToRemove)
            obsPatch == [obsDiff EXCEPT !.patchSent = TRUE, !.patchBody = patchBody,
                                        !.patchOut = patchOut]
        IN  IF changesNeeded(emailsToAdd, emailsToRemove)
            THEN IF patchOut = "ok"
                 THEN [result |-> SyncSuccess(Len(emailsToAdd), Len(emailsToRemove),
                                              Len(expectedState.emails), "PATCH", ""),
                       list |-> ApplyIncremental(list, patchBody), obs |-> obsPatch]
                 ELSE IF patchOut = "reject"
                 THEN [result |-> SyncFailure("errors"), list |-> list, obs |-> obsPatch]
                 ELSE [result |-> SyncFailure("exception"), list |-> list, obs |-> obsPatch]
            ELSE [result |-> SyncSuccess(0, 0, Len(expectedState.emails), "", "Already in sync"),
                  list |-> list, obs |-> obsDiff]

----------------------------------------------------------------------------
(* makeApiRequest(url, options, maxRetries = 3): one HTTP request with retries *)

DefaultMaxRetries == 3

MaxRetriesArg == 3     \* the calls modelled have maxRetries in 1..MaxRetriesArg
RetryAfterSecs == 5    \* the value of a Retry-After header, when one is sent

\* what one fetch(url, options) meets: a network error (fetch rejects) or an
\* HTTP response with a status and, possibly, a Retry-After header (0: none)
NetworkError == [kind |-> "net", status |-> 0, retryAfter |-> 0]
HttpResponse(status, retryAfter) == [kind |-> "http", status |-> status, retryAfter |-> retryAfter]
Responses ==
    {NetworkError} \cup {HttpResponse(s, 0) : s \in {200, 403, 429, 500, 503}}
    \cup {HttpResponse(429, RetryAfterSecs)}

\* (variant: the last attempt is not made)
loopContinues_Mut(attempt, maxRetries) == attempt < maxRetries

\* the condition of the for loop
loopContinues(attempt, maxRetries) == attempt <= maxRetries

\* (variant: client errors are taken for server errors)
isServerError_Mut(status) == status >= 400

\* response.status >= 500
isServerError(status) == status >= 500

\* (variant: a server error is retried whatever the attempt)
retriesLeft_Mut(attempt, maxRetries) == TRUE

\* attempt < maxRetries, the second half of the server error test
retriesLeft(attempt, maxRetries) == attempt < maxRetries

\* (variant: the network error of the first attempt is rethrown)
isLastAttempt_Mut(attempt, maxRetries) == attempt = 1

\* attempt === maxRetries, the test of the catch block
isLastAttempt(attempt, maxRetries) == attempt = maxRetries

\* Math.pow(2, attempt), in seconds
backoff(attempt) == 2 ^ attempt

\* the body of the for loop for one attempt: what the loop does next and
\* the seconds it waits before that (0: no wait)
attemptBody(attempt, maxRetries, resp) ==
    IF resp.kind = "net"
    THEN IF isLastAttempt(attempt, maxRetries)
         THEN [next |-> "throw", wait |-> 0]
         ELSE [next |-> "continue", wait |-> backoff(attempt)]
    ELSE IF resp.status = 429
    THEN [next |-> "continue",
          wait |-> IF resp.retryAfter # 0 THEN resp.retryAfter ELSE backoff(attempt)]
    ELSE IF isServerError(resp.status) /\ retriesLeft(attempt, maxRetries)
    THEN [next |-> "continue", wait |-> backoff(attempt)]
    ELSE [next |-> "return", wait |-> 0]

\* no call of makeApiRequest
NoCall == [maxRetries |-> 0, attempt |-> 0, history |-> <<>>, waits |-> <<>>,
           outcome |-> "none", status |-> 0]

\* the call at its entry
CallStart(maxRetries) ==
    [maxRetries |-> maxRetries, attempt |-> 1, history |-> <<>>, waits |-> <<>>,
     outcome |-> IF loopContinues(1, maxRetries) THEN "running" ELSE "undefined",
     status |-> 0]

\* the call after the attempt that met resp: outcome is response (a response
\* is returned, status is its status), throw (the network error is rethrown),
\* undefined (the loop ended without a return) or running
makeApiRequest(call, resp) ==
    LET b == attemptBody(call.attempt, call.maxRetries, resp)
        met == [call EXCEPT !.history = Append(@, resp), !.waits = Append(@, b.wait)]
    IN  IF b.next = "return" THEN [met EXCEPT !.outcome = "response", !.status = resp.status]
        ELSE IF b.next = "throw" THEN [met EXCEPT !.outcome = "throw"]
        ELSE [met EXCEPT !.attempt = @ + 1,
                         !.outcome = IF loopContinues(call.attempt + 1, call.maxRetries)
                                     THEN "running" ELSE "undefined"]

\* the call when every attempt it makes meets resp
RECURSIVE exhaust(_, _)
exhaust(call, resp) ==
    IF call.outcome = "running" THEN exhaust(makeApiRequest(call, resp), resp) ELSE call

\* the transient failures an endpoint can answer every attempt with, and
\* whether the body of its response, if any, is JSON (the API's envelope,
\* with success: false for an error status) or not (a gateway's error page)
TransportFailures ==
    [resp : {NetworkError, HttpResponse(429, 0), HttpResponse(500, 0), HttpResponse(503, 0)},
     json : BOOLEAN]

\* what the page loop of a fetcher meets after `response = await
\* makeApiRequest(...)` and `data = await response.json()`: throw (the call
\* threw, returned undefined, or the body is not JSON), fail (data.success
\* is false) or none
pageFaultOf(call, json) ==
    IF call.outcome # "response" THEN "throw"
    ELSE IF ~json THEN "throw"
    ELSE IF call.status >= 400 THEN "fail"
    ELSE "none"

----------------------------------------------------------------------------
(* handleReconciliation: GET /api/reconcile-lists *)

NoEntry == [present |-> FALSE, consistent |-> FALSE, expectedCount |-> -1, actualCount |-> -1]

NoExam == [got |-> FALSE, fetched |-> FALSE, exit |-> "none", next |-> "none"]

NoRecon ==
    [pc |-> "off", idx |-> 1, reconciliationResults |-> [t \in Tiers |-> NoEntry],
     exam |-> [t \in Tiers |-> NoExam], response |-> "none"]

\* the value of currentItemsResult.success: fetchGatewayListItems returns no
\* such field on any path, so the test !currentItemsResult.success is true
hasSuccess(currentItemsResult) == FALSE

\* (variant: an absent snapshot is initialised with the empty membership)
snapshotAfterCheck_Mut(expectedState) ==
    IF expectedState.present THEN expectedState
    ELSE [NoState EXCEPT !.present = TRUE]

\* the snapshot after the check of its tier: the handler only reads it
snapshotAfterCheck(expectedState) == expectedState

\* one iteration of the loop over the three lists: next is throw (an
\* exception reaches the outer catch), continue (the tier is skipped) or
\* push (an entry is added to the report)
reconcileList(expectedState, list, kvOut, fault) ==
    IF kvOut = "throw"
    THEN [next |-> "throw", entry |-> NoEntry, exam |-> [NoExam EXCEPT !.next = "throw"],
          state |-> expectedState, list |-> list]
    ELSE IF ~expectedState.present
    THEN [next |-> "continue", entry |-> NoEntry,
          exam |-> [NoExam EXCEPT !.got = TRUE, !.next = "continue"],
          state |-> snapshotAfterCheck(expectedState), list |-> list]
    ELSE
    LET expectedEmails == NewSet(expectedState.emails)
        currentItemsResult == fetchGatewayListItems(list, fault)
        currentEmails == NewSet(currentItemsResult.items)
        exam == [got |-> TRUE, fetched |-> TRUE, exit |-> currentItemsResult.exit, next |-> "continue"]
    IN  IF ~hasSuccess(currentItemsResult)
        THEN [next |-> "continue", entry |-> NoEntry, exam |-> exam,
              state |-> snapshotAfterCheck(expectedState), list |-> list]
        ELSE [next |-> "push",
              entry |-> [present |-> TRUE,
                         consistent |-> setsEqual(currentEmails, expectedEmails),
                         expectedCount |-> Len(expectedEmails),
                         actualCount |-> Len(currentEmails)],
              exam |-> [exam EXCEPT !.next = "push"],
              state |-> snapshotAfterCheck(expectedState), list |-> list]

----------------------------------------------------------------------------
(* updateGatewayList(accountId, apiToken, listId, users, env): the sync by
   clearing and replacing the list *)

\* return values of updateGatewayList; a field the object does not carry
\* is -1 (numbers) or "" (strings)
ReplaceFailure(errors) ==
    [success |-> FALSE, added |-> -1, removed |-> -1, message |-> "", errors |-> errors,
     reconciliationNeeded |-> FALSE]

ReplaceSuccess(added, removed, message, reconciliationNeeded) ==
    [success |-> TRUE, added |-> added, removed |-> removed, message |-> message, errors |-> "",
     reconciliationNeeded |-> reconciliationNeeded]

\* no call of updateGatewayList; did is the set of the steps a call went into
NoReplace ==
    [pc |-> "off", tier |-> "none", result |-> ReplaceFailure(""), did |-> {},
     before |-> {}, target |-> <<>>, faulted |-> FALSE]

\* targetEmails.length > 0: targetEmails is a Set, which has a size and no
\* length, so the comparison is undefined > 0
setLengthPositive(targetEmails) == FALSE

\* newExpectedState: emails, lastUpdated and lastAttempt only
newExpectedStateOf(targetEmails) ==
    [present |-> TRUE, emails |-> targetEmails, riskLevel |-> "", userCount |-> -1,
     reconciliationNeeded |-> FALSE, lastReconciliationAttempt |-> FALSE]

\* reconciliationState: newExpectedState with the drift flag and its timestamp
reconciliationStateOf(newExpectedState) ==
    [newExpectedState EXCEPT !.reconciliationNeeded = TRUE, !.lastReconciliationAttempt = TRUE]

\* Step 4 of updateGatewayList, after the snapshot was written
verifyStep(list, state, targetEmails, emailsToAdd, emailsToRemove, out, did) ==
    LET verifyResult == fetchGatewayListItems(list, out.verify)
        actualEmails == NewSet(verifyResult.items)
        didVerify == did \cup {"verify"}
    IN  IF hasSuccess(verifyResult) /\ ~setsEqual(actualEmails, NewSet(targetEmails))
        THEN IF out.flagPut = "throw"
             THEN [result |-> ReplaceFailure("exception"), list |-> list, state |-> state,
                   did |-> didVerify \cup {"compare", "flagPut"}, verifyExit |-> verifyResult.exit]
             ELSE [result |-> ReplaceSuccess(Len(emailsToAdd), Len(emailsToRemove), "", TRUE),
                   list |-> list, state |-> reconciliationStateOf(state),
                   did |-> didVerify \cup {"compare", "flagPut"}, verifyExit |-> verifyResult.exit]
        ELSE [result |-> ReplaceSuccess(Len(emailsToAdd), Len(emailsToRemove), "", FALSE),
              list |-> list, state |-> state,
              did |-> IF hasSuccess(verifyResult) THEN didVerify \cup {"compare"} ELSE didVerify,
              verifyExit |-> verifyResult.exit]

\* Steps 1 to 3 of updateGatewayList: clear the list, put the target items,
\* write the snapshot
replaceSteps(list, old, targetEmails, emailsToAdd, emailsToRemove, out, did) ==
    LET didClear == did \cup {"clear"}
    IN  IF out.clear = "throw"
        THEN [result |-> ReplaceFailure("exception"), list |-> list, state |-> old,
              did |-> didClear, verifyExit |-> "none"]
        ELSE IF out.clear = "reject"
        THEN [result |-> ReplaceFailure("errors"), list |-> list, state |-> old,
              did |-> didClear, verifyExit |-> "none"]
        ELSE
        LET adds == setLengthPositive(targetEmails)
            didAdd == IF adds THEN didClear \cup {"add"} ELSE didClear
            filled == IF adds /\ out.add = "ok" THEN ToSet(targetEmails) ELSE {}
        IN  IF adds /\ out.add = "throw"
            THEN [result |-> ReplaceFailure("exception"), list |-> filled, state |-> old,
                  did |-> didAdd, verifyExit |-> "none"]
            ELSE IF adds /\ out.add = "reject"
            THEN [result |-> ReplaceFailure("errors"), list |-> filled, state |-> old,
                  did |-> didAdd, verifyExit |-> "none"]
            ELSE IF out.put = "throw"
            THEN [result |-> ReplaceFailure("exception"), list |-> filled, state |-> old,
                  did |-> didAdd \cup {"put"}, verifyExit |-> "none"]
            ELSE verifyStep(filled, newExpectedStateOf(targetEmails), targetEmails,
                            emailsToAdd, emailsToRemove, out, didAdd \cup {"put"})

\* updateGatewayList: list and state are the Gateway list and the value of
\* its KV key afterwards; out gives the outcome of each operation; fetchExit
\* and verifyExit tell how the two list fetches were left
updateGatewayList(old, list, users, out) ==
    IF out.kv = "throw"
    THEN [result |-> ReplaceFailure("exception"), list |-> list, state |-> old,
          did |-> {"get"}, fetchExit |-> "none", verifyExit |-> "none"]
    ELSE IF out.info = "throw"
    THEN [result |-> ReplaceFailure("exception"), list |-> list, state |-> old,
          did |-> {"get", "info"}, fetchExit |-> "none", verifyExit |-> "none"]
    ELSE IF out.info = "reject"
    THEN [result |-> ReplaceFailure("errors"), list |-> list, state |-> old,
          did |-> {"get", "info"}, fetchExit |-> "none", verifyExit |-> "none"]
    ELSE
    LET currentItemsResult == fetchGatewayListItems(list, out.fault)
        did == {"get", "info", "fetch"}
    IN  IF ~hasSuccess(currentItemsResult)
        THEN [result |-> ReplaceFailure("undefined"), list |-> list, state |-> old,
              did |-> did, fetchExit |-> currentItemsResult.exit, verifyExit |-> "none"]
        ELSE
        LET currentEmails == NewSet(currentItemsResult.items)
            targetEmails == NewSet(mapEmail(users))
            expectedEmails == NewSet(old.emails)
            emailsToAdd == emailsToAddOf(targetEmails, currentEmails)
            emailsToRemove == emailsToRemoveOf(targetEmails, currentEmails)
            apiInconsistent == ~setsEqual(currentEmails, expectedEmails)
        IN  IF Len(emailsToAdd) = 0 /\ Len(emailsToRemove) = 0 /\ ~apiInconsistent
            THEN [result |-> ReplaceSuccess(0, 0, "No changes needed", FALSE),
                  list |-> list, state |-> old, did |-> did,
                  fetchExit |-> currentItemsResult.exit, verifyExit |-> "none"]
            ELSE LET r == replaceSteps(list, old, targetEmails, emailsToAdd, emailsToRemove,
                                       out, did)
                 IN  [result |-> r.result, list |-> r.list, state |-> r.state, did |-> r.did,
                      fetchExit |-> currentItemsResult.exit, verifyExit |-> r.verifyExit]

----------------------------------------------------------------------------
(* A second invocation of handleRequest('notfetch', env), as /api/force-cleanup
   makes it, taken await by await in syncGatewayListFromKV *)

\* no second invocation; expectedState and items are the locals of the
\* running call of syncGatewayListFromKV, startedIn and finishedIn the
\* phase of the scheduled cycle when the invocation started and returned
NoSecond ==
    [pc |-> "off", idx |-> 1, users |-> <<>>, expectedState |-> NoState, items |-> <<>>,
     result |-> [t \in Tiers |-> NoSyncResult], startedIn |-> "none", finishedIn |-> "none",
     sourceChanged |-> FALSE]

----------------------------------------------------------------------------
(* updateRiskListsAPI: POST /api/update-risk-lists *)

Cost(out) == IF out = "ok" THEN 0 ELSE 1
FaultCost(fault) == IF fault = NoFault THEN 0 ELSE 1

\* no request to /api/update-risk-lists; kvBound tells whether the env
\* handed to handleRequest('notfetch', env) carries USER_RISK_KV
NoManual == [pc |-> "off", kvBound |-> TRUE, response |-> "none"]

\* the env of the scheduled trigger is the Worker's env; the env built by
\* updateRiskListsAPI names the account, the token and the three list ids only
envHasKV == manual.kvBound

\* what an operation on env.USER_RISK_KV can do: without the binding the
\* property access throws
KvOutcomes == IF envHasKV THEN {"ok", "throw"} ELSE {"throw"}

\* a failure of the KV counts as one of the failures of the run only when
\* the binding is there
KvCost(out) == IF envHasKV THEN Cost(out) ELSE 0

\* no request to /api/force-cleanup
NoCleanup == [pc |-> "off", response |-> "none"]

\* no cycle taken request by request; risk and list are the states of the
\* two page loops, call the running call of makeApiRequest, calls the
\* number of calls of makeApiRequest made so far, tries the number of calls
\* of fetch() the latest of them made, kvOps the number of KV operations
NoRun ==
    [pc |-> "off", idx |-> 1, risk |-> LoopStart, list |-> LoopStart, call |-> NoCall,
     users |-> <<>>, expectedState |-> NoState, emailsToAdd |-> <<>>, emailsToRemove |-> <<>>,
     calls |-> 0, tries |-> 0, kvOps |-> 0]

----------------------------------------------------------------------------
(* getHealthCheckAPI: GET /api/health *)

MaxLatency == 3       \* a request takes 1..MaxLatency milliseconds

HealthMaxRetries == 1

\* response.ok: the status is in the range 200-299
isOk(status) == status >= 200 /\ status <= 299

\* a check not reported; response_time -1: no such field
NoCheck == [status |-> "none", response_time |-> -1]

\* no request to /api/health; clock is Date.now() in milliseconds, calls the
\* number of calls of makeApiRequest made, error whether health.error is set
NoHealth ==
    [pc |-> "off", clock |-> 0, startTime |-> 0, riskStartTime |-> 0, status |-> "none",
     checks |-> [cloudflare_api |-> NoCheck, risk_scoring_api |-> NoCheck],
     error |-> FALSE, total_response_time |-> -1, httpStatus |-> 0, calls |-> 0]

\* the handler at its entry
HealthStart == [NoHealth EXCEPT !.pc = "first", !.status = "healthy"]

\* the entry of health.checks for the response a call returned
checkOf(call, responseTime) ==
    [status |-> IF isOk(call.status) THEN "healthy" ELSE "unhealthy",
     response_time |-> responseTime]

\* the milliseconds a call takes: the request and the wait after it
elapsedOf(call, latency) == latency + 1000 * call.waits[Len(call.waits)]

\* the catch block: an exception of either call ends the try block
healthCaught(h, now) ==
    [h EXCEPT !.pc = "respond", !.clock = now, !.status = "unhealthy", !.error = TRUE]

\* every check reported is healthy
allHealthy(checks) ==
    \A k \in DOMAIN checks : checks[k].status \in {"healthy", "none"}

----------------------------------------------------------------------------
(* Configuration: validateEnvironmentVariables, validateListId and the checks
   at the head of handleRequest *)

\* a configured string, by what the validators look at: its length (0: the
\* variable is not set) and the smallest of the character classes
\* hex [a-f0-9], hexdash [a-f0-9-], token [A-Za-z0-9_-], other that holds
\* all its characters
ConfigString(len, class) == [len |-> len, class |-> class]

CharClasses == <<"hex", "hexdash", "token", "other">>

\* the string matches /^[...]*$/ for the character class named
MatchesClass(str, class) ==
    \E i, j \in 1..Len(CharClasses) :
        CharClasses[i] = str.class /\ CharClasses[j] = class /\ i <= j

AccountIdLength == 32
ListIdLength == 36
TokenMinLength == 40

\* validateEnvironmentVariables(env) returns without throwing
validateEnvironmentVariables(env) ==
    /\ env.CLOUDFLARE_ACCOUNT_ID.len > 0
    /\ env.CLOUDFLARE_API_TOKEN.len > 0
    /\ env.CLOUDFLARE_ACCOUNT_ID.len = AccountIdLength
    /\ MatchesClass(env.CLOUDFLARE_ACCOUNT_ID, "hex")
    /\ env.CLOUDFLARE_API_TOKEN.len >= TokenMinLength
    /\ MatchesClass(env.CLOUDFLARE_API_TOKEN, "token")

\* (variant: only the presence of the list id is tested)
validateListId_Mut(listId) == listId.len > 0

\* validateListId(listId, listName) returns without throwing
validateListId(listId) ==
    listId.len > 0 /\ listId.len = ListIdLength /\ MatchesClass(listId, "hexdash")

\* the three list ids are configured
listIdsConfigured(env) ==
    env.HIGH_RISK_LIST_ID.len > 0 /\ env.MEDIUM_RISK_LIST_ID.len > 0 /\ env.LOW_RISK_LIST_ID.len > 0

\* handleRequest gets past its configuration checks
configAccepted(env) ==
    /\ validateEnvironmentVariables(env)
    /\ listIdsConfigured(env)
    /\ validateListId(env.HIGH_RISK_LIST_ID)
    /\ validateListId(env.MEDIUM_RISK_LIST_ID)
    /\ validateListId(env.LOW_RISK_LIST_ID)

ValidConfig ==
    [CLOUDFLARE_ACCOUNT_ID |-> ConfigString(AccountIdLength, "hex"),
     CLOUDFLARE_API_TOKEN |-> ConfigString(TokenMinLength, "token"),
     HIGH_RISK_LIST_ID |-> ConfigString(ListIdLength, "hexdash"),
     MEDIUM_RISK_LIST_ID |-> ConfigString(ListIdLength, "hexdash"),
     LOW_RISK_LIST_ID |-> ConfigString(ListIdLength, "hexdash")]

\* the values a variable of the configuration is given: not set, of the
\* length of an account id, of a list id, of a token, one character short
\* of a list id; of each character class
ConfigStrings ==
    {ConfigString(0, "hex")}
    \cup {ConfigString(l, c) : l \in {AccountIdLength, ListIdLength - 1, ListIdLength, TokenMinLength},
                               c \in {"hex", "hexdash", "token", "other"}}

\* the configurations that differ from the valid one in at most two variables
Configs ==
    {c \in [CLOUDFLARE_ACCOUNT_ID : ConfigStrings, CLOUDFLARE_API_TOKEN : ConfigStrings,
            HIGH_RISK_LIST_ID : ConfigStrings, MEDIUM_RISK_LIST_ID : ConfigStrings,
            LOW_RISK_LIST_ID : ConfigStrings] :
        Cardinality({k \in DOMAIN ValidConfig : c[k] # ValidConfig[k]}) <= 2}

----------------------------------------------------------------------------
(* The scheduled cycle: handleRequest('notfetch', env) with a valid configuration *)

\* every classification of the users, listed once each; and the listings
\* with a repeated user or with more pages than the bound, for the
\* classifications that put all users in one tier
RiskSources ==
    [level : [Emails -> Levels], shape : {"plain"}]
    \cup [level : {[e \in Emails |-> t] : t \in Tiers}, shape : {"dup", "big"}]

\* the memberships of the three lists before the first cycle
\* (Stale is a member that is no user of the risk source)
Stale == NumEmails + 1

InitialLists ==
    {[t \in Tiers |-> {}], [t \in Tiers |-> Emails \cup {Stale}]}
    \cup {[t \in Tiers |-> IF t = "high" THEN X ELSE {}] : X \in (SUBSET {1, 2, Stale}) \ {{}}}
    \cup {[t \in Tiers |-> IF t = "medium" THEN BigList \cup {1} ELSE {}]}

PageFaults == {NoFault} \cup [at : 1..MaxFailPage, kind : {"fail", "throw"}]

\* the cycle before its first step, for a risk source of sources and
\* snapshots and lists of worlds
InitFrom(sources, worlds, nCycles, nFaults) ==
    /\ riskSource \in sources
    /\ \E w \in worlds : kv = w.kv /\ remote = w.remote
    /\ pc = "idle"
    /\ idx = 1
    /\ userRiskResult = [success |-> FALSE, exit |-> "none", requests |-> 0]
    /\ userRiskScores = <<>>
    /\ storeResult = [t \in Tiers |-> NoStoreResult]
    /\ syncResult = [t \in Tiers |-> NoSyncResult]
    /\ syncObs = [t \in Tiers |-> NoObs]
    /\ synced = [t \in Tiers |-> FALSE]
    /\ cycleOk = FALSE
    /\ prevCycleOk = FALSE
    /\ sourceStable = FALSE
    /\ cyclesLeft = nCycles
    /\ faultsLeft = nFaults

\* a first deployment: no snapshot yet
InitWith(nCycles, nFaults) ==
    InitFrom(RiskSources, {[kv |-> [t \in Tiers |-> NoState], remote |-> r] : r \in InitialLists},
             nCycles, nFaults)

\* no other handler runs
HandlersIdle ==
    /\ api = NoCall
    /\ recon = NoRecon
    /\ manual = NoManual
    /\ config = ValidConfig
    /\ replace = NoReplace
    /\ pages = NoPages
    /\ second = NoSecond
    /\ cleanup = NoCleanup
    /\ health = NoHealth
    /\ run = NoRun

\* one cycle, in which up to MaxFaults operations fail
Init == InitWith(1, MaxFaults) /\ HandlersIdle

\* (variant: the result of the risk fetch is not looked at)
proceedAfterFetch_Mut(result) == TRUE

\* handleRequest goes on after the risk fetch only when it reports success
proceedAfterFetch(result) == result.success

\* Step 1: fetch the risk scores; a failed fetch ends the cycle
StartCycle ==
    /\ pc = "idle"
    /\ cyclesLeft > 0
    /\ configAccepted(config)
    /\ manual.pc \in {"off", "inner"}
    /\ \E fault \in PageFaults :
        LET r == fetchAllUserRiskScores(RiskListing(riskSource), fault)
        IN  /\ FaultCost(fault) <= faultsLeft
            /\ fault # NoFault => r.exit \in {"fail", "catch"}
            /\ faultsLeft' = faultsLeft - FaultCost(fault)
            /\ cyclesLeft' = cyclesLeft - 1
            /\ userRiskResult' = [success |-> r.success, exit |-> r.exit, requests |-> r.totalRequests]
            /\ storeResult' = [t \in Tiers |-> NoStoreResult]
            /\ syncResult' = [t \in Tiers |-> NoSyncResult]
            /\ syncObs' = [t \in Tiers |-> NoObs]
            /\ IF proceedAfterFetch(r)
               THEN /\ userRiskScores' = r.users
                    /\ pc' = "store"
                    /\ idx' = 1
                    /\ cycleOk' = r.success
                    /\ UNCHANGED <<prevCycleOk, sourceStable>>
               ELSE /\ userRiskScores' = <<>>
                    /\ pc' = "idle"
                    /\ idx' = 1
                    /\ cycleOk' = FALSE
                    /\ prevCycleOk' = FALSE
                    /\ sourceStable' = TRUE
    /\ UNCHANGED <<riskSource, remote, kv, synced>>
    /\ UNCHANGED handlerVars

\* handleRequest('notfetch', env) with a configuration that fails a check:
\* the failure is logged and the invocation returns
RejectConfig ==
    /\ pc = "idle"
    /\ cyclesLeft > 0
    /\ manual.pc \in {"off", "inner"}
    /\ ~configAccepted(config)
    /\ cyclesLeft' = cyclesLeft - 1
    /\ UNCHANGED <<riskSource, remote, kv, pc, idx, userRiskResult, userRiskScores, storeResult,
                   syncResult, syncObs, synced, cycleOk, prevCycleOk, sourceStable, faultsLeft>>
    /\ UNCHANGED handlerVars

\* Steps 2 and 3: categorize and store the expected state of the tier at idx
StoreExpected ==
    /\ pc = "store"
    /\ \E putOut \in KvOutcomes :
        LET t == TierOrder[idx]
            r == storeExpectedStateInKV(kv[t], filterByLevel(userRiskScores, t), t, putOut)
        IN  /\ KvCost(putOut) <= faultsLeft
            /\ faultsLeft' = faultsLeft - KvCost(putOut)
            /\ kv' = [kv EXCEPT ![t] = r.state]
            /\ storeResult' = [storeResult EXCEPT ![t] = r.result]
            /\ synced' = [synced EXCEPT ![t] = IF putOut = "ok" THEN FALSE ELSE @]
            /\ cycleOk' = (cycleOk /\ putOut = "ok")
    /\ IF idx < Len(TierOrder)
       THEN pc' = "store" /\ idx' = idx + 1
       ELSE pc' = "sync" /\ idx' = 1
    /\ UNCHANGED <<riskSource, remote, userRiskResult, userRiskScores, syncResult, syncObs,
                   prevCycleOk, sourceStable, cyclesLeft>>
    /\ UNCHANGED handlerVars

\* (variant: a failed sync ends the cycle)
afterSync_Mut(i, result) ==
    IF i < Len(TierOrder) /\ result.success
    THEN [pc |-> "sync", idx |-> i + 1] ELSE [pc |-> "done", idx |-> 1]

\* after the sync of the tier at position i, handleRequest goes on to the next
\* tier whatever the sync returned
afterSync(i, result) ==
    IF i < Len(TierOrder) THEN [pc |-> "sync", idx |-> i + 1] ELSE [pc |-> "done", idx |-> 1]

\* Step 4: sync the Gateway list of the tier at idx from its snapshot
SyncTier ==
    /\ pc = "sync"
    /\ \E kvOut \in KvOutcomes, fault \in PageFaults, patchOut \in {"ok", "reject", "throw"} :
        LET t == TierOrder[idx]
            r == syncGatewayListFromKV(kv[t], remote[t], kvOut, fault, patchOut)
            cost == KvCost(kvOut) + FaultCost(fault) + Cost(patchOut)
            next == afterSync(idx, r.result)
        IN  /\ cost <= faultsLeft
            /\ fault # NoFault => r.obs.exit \in {"break", "catch"}
            /\ patchOut # "ok" => r.obs.patchSent
            /\ faultsLeft' = faultsLeft - cost
            /\ remote' = [remote EXCEPT ![t] = r.list]
            /\ syncResult' = [syncResult EXCEPT ![t] = r.result]
            /\ syncObs' = [syncObs EXCEPT ![t] = [r.obs EXCEPT !.faulted = cost > 0]]
            /\ synced' = [synced EXCEPT ![t] = r.result.success]
            /\ cycleOk' = (cycleOk /\ cost = 0 /\ r.result.success)
            /\ pc' = next.pc
            /\ idx' = next.idx
    /\ UNCHANGED <<riskSource, kv, userRiskResult, userRiskScores, storeResult,
                   prevCycleOk, sourceStable, cyclesLeft>>
    /\ UNCHANGED handlerVars

\* handleRequest returns
Finish ==
    /\ pc = "done"
    /\ pc' = "idle"
    /\ prevCycleOk' = cycleOk
    /\ sourceStable' = TRUE
    /\ UNCHANGED <<riskSource, remote, kv, idx, userRiskResult, userRiskScores, storeResult,
                   syncResult, syncObs, synced, cycleOk, cyclesLeft, faultsLeft>>
    /\ UNCHANGED handlerVars

\* between two cycles the risk source reclassifies one user
RiskChange ==
    /\ pc = "idle"
    /\ userRiskResult.exit # "none"
    /\ cyclesLeft > 0
    /\ sourceStable
    /\ \E e \in Emails, l \in Levels :
        /\ l # riskSource.level[e]
        /\ riskSource' = [riskSource EXCEPT !.level[e] = l]
    /\ sourceStable' = FALSE
    /\ UNCHANGED <<remote, kv, pc, idx, userRiskResult, userRiskScores, storeResult,
                   syncResult, syncObs, synced, cycleOk, prevCycleOk, cyclesLeft, faultsLeft>>
    /\ UNCHANGED handlerVars

Next == StartCycle \/ StoreExpected \/ SyncTier \/ Finish

Spec == Init /\ [][Next]_vars

\* MaxCycles cycles in succession without failures, the risk source changing
\* or not between two of them
InitTwice == InitWith(MaxCycles, 0) /\ HandlersIdle

NextTwice == StartCycle \/ StoreExpected \/ SyncTier \/ Finish \/ RiskChange

SpecTwice == InitTwice /\ [][NextTwice]_vars

\* the state of the scheduled cycle while another handler is looked at:
\* no cycle runs, nobody is classified high, the lists are empty
CycleIdle ==
    /\ InitWith(0, 0)
    /\ riskSource = [level |-> [e \in Emails |-> "low"], shape |-> "plain"]
    /\ remote = [t \in Tiers |-> {}]

cycleVars == <<riskSource, remote, kv, pc, idx, userRiskResult, userRiskScores, storeResult,
               syncResult, syncObs, synced, cycleOk, prevCycleOk, sourceStable, cyclesLeft,
               faultsLeft>>

\* one call of makeApiRequest, the endpoint answering each attempt as it likes
InitApi ==
    /\ CycleIdle
    /\ api \in {CallStart(m) : m \in 1..MaxRetriesArg}
    /\ recon = NoRecon
    /\ manual = NoManual
    /\ config = ValidConfig
    /\ replace = NoReplace
    /\ pages = NoPages
    /\ second = NoSecond
    /\ cleanup = NoCleanup
    /\ health = NoHealth
    /\ run = NoRun

\* one attempt of the running call
ApiAttempt ==
    /\ api.outcome = "running"
    /\ \E resp \in Responses : api' = makeApiRequest(api, resp)
    /\ UNCHANGED <<cycleVars, recon, manual, config, replace, pages, second, cleanup, health, run>>

NextApi == ApiAttempt

SpecApi == InitApi /\ [][NextApi]_vars

\* the snapshot a completed cycle stored for tier t under classification c
SnapshotOf(c, t) ==
    storeExpectedStateInKV(NoState,
        filterByLevel(RiskListing([level |-> c, shape |-> "plain"]), t), t, "ok").state

\* the snapshots of an earlier cycle, some of them missing, and lists that
\* agree with them, are empty, or hold everybody and a stranger
SnapshotsAndLists ==
    UNION {
        {[kv |-> [t \in Tiers |-> IF t \in P THEN SnapshotOf(c, t) ELSE NoState], remote |-> r] :
            P \in SUBSET Tiers,
            r \in {[t \in Tiers |-> ToSet(SnapshotOf(c, t).emails)],
                   [t \in Tiers |-> {}],
                   [t \in Tiers |-> Emails \cup {Stale}]} } :
        c \in [Emails -> Levels] }

\* the variables of the cycle other than the two stores and the fault budget
cycleLocals == <<riskSource, pc, idx, userRiskResult, userRiskScores, storeResult, syncResult,
                 syncObs, synced, cycleOk, prevCycleOk, sourceStable, cyclesLeft>>

\* one call of handleReconciliation, in which up to MaxFaults operations fail
InitRecon ==
    /\ InitFrom({[level |-> [e \in Emails |-> "low"], shape |-> "plain"]}, SnapshotsAndLists,
                0, MaxFaults)
    /\ api = NoCall
    /\ recon = [NoRecon EXCEPT !.pc = "loop"]
    /\ manual = NoManual
    /\ config = ValidConfig
    /\ replace = NoReplace
    /\ pages = NoPages
    /\ second = NoSecond
    /\ cleanup = NoCleanup
    /\ health = NoHealth
    /\ run = NoRun

\* (variant: the loop ends at the first tier without snapshot)
afterSkip_Mut(i, present) ==
    IF i < Len(TierOrder) /\ present
    THEN [pc |-> "loop", idx |-> i + 1] ELSE [pc |-> "respond", idx |-> 1]

\* continue, or the end of an iteration: the loop goes to the next list
afterSkip(i, present) ==
    IF i < Len(TierOrder) THEN [pc |-> "loop", idx |-> i + 1] ELSE [pc |-> "respond", idx |-> 1]

\* one iteration of the loop of handleReconciliation
ReconcileList ==
    /\ recon.pc = "loop"
    /\ \E kvOut \in {"ok", "throw"}, fault \in PageFaults :
        LET t == TierOrder[recon.idx]
            r == reconcileList(kv[t], remote[t], kvOut, fault)
            cost == Cost(kvOut) + FaultCost(fault)
            next == afterSkip(recon.idx, kv[t].present)
        IN  /\ cost <= faultsLeft
            /\ fault # NoFault => r.exam.exit \in {"break", "catch"}
            /\ faultsLeft' = faultsLeft - cost
            /\ kv' = [kv EXCEPT ![t] = r.state]
            /\ remote' = [remote EXCEPT ![t] = r.list]
            /\ recon' = IF r.next = "throw"
                        THEN [recon EXCEPT !.pc = "answered", !.response = "error500",
                                           !.exam[t] = r.exam]
                        ELSE [recon EXCEPT !.pc = next.pc, !.idx = next.idx,
                                           !.exam[t] = r.exam,
                                           !.reconciliationResults[t] = r.entry]
    /\ UNCHANGED <<cycleLocals, api, manual, config, replace, pages, second, cleanup, health, run>>

\* the response after the loop
ReconcileRespond ==
    /\ recon.pc = "respond"
    /\ recon' = [recon EXCEPT !.pc = "answered", !.response = "ok"]
    /\ UNCHANGED <<cycleVars, api, manual, config, replace, pages, second, cleanup, health, run>>

NextRecon == ReconcileList \/ ReconcileRespond

SpecRecon == InitRecon /\ [][NextRecon]_vars

\* one cycle that starts from the snapshots of an earlier cycle, the lists
\* agreeing with them or not, and in which up to MaxFaults operations fail
InitStale ==
    /\ InitFrom([level : {[e \in Emails |-> t] : t \in Tiers}, shape : {"plain"}],
                {w \in SnapshotsAndLists : \A t \in Tiers : w.kv[t].present},
                1, MaxFaults)
    /\ HandlersIdle

NextStale == StartCycle \/ StoreExpected \/ SyncTier \/ Finish

SpecStale == InitStale /\ [][NextStale]_vars

\* one request to /api/update-risk-lists, in which up to MaxFaults
\* operations fail
InitManual ==
    /\ InitWith(1, MaxFaults)
    /\ api = NoCall
    /\ recon = NoRecon
    /\ manual = [pc |-> "fetch", kvBound |-> FALSE, response |-> "none"]
    /\ config = ValidConfig
    /\ replace = NoReplace
    /\ pages = NoPages
    /\ second = NoSecond
    /\ cleanup = NoCleanup
    /\ health = NoHealth
    /\ run = NoRun

\* updateRiskListsAPI up to its call of handleRequest: a first fetch of the
\* risk scores, answered 500 when it fails
ManualFetch ==
    /\ manual.pc = "fetch"
    /\ \E fault \in PageFaults :
        LET r == fetchAllUserRiskScores(RiskListing(riskSource), fault)
        IN  /\ FaultCost(fault) <= faultsLeft
            /\ fault # NoFault => r.exit \in {"fail", "catch"}
            /\ faultsLeft' = faultsLeft - FaultCost(fault)
            /\ manual' = IF r.success
                         THEN [manual EXCEPT !.pc = "inner"]
                         ELSE [manual EXCEPT !.pc = "answered", !.response = "error500"]
    /\ UNCHANGED <<remote, kv, cycleLocals, api, recon, config, replace, pages, second, cleanup, health, run>>

\* updateRiskListsAPI after handleRequest returned: the result is not
\* looked at and the answer is success
ManualRespond ==
    /\ manual.pc = "inner"
    /\ pc = "idle"
    /\ cyclesLeft = 0
    /\ manual' = [manual EXCEPT !.pc = "answered", !.response = "success"]
    /\ UNCHANGED <<cycleVars, api, recon, config, replace, pages, second, cleanup, health, run>>

NextManual == ManualFetch \/ StartCycle \/ StoreExpected \/ SyncTier \/ Finish \/ ManualRespond

SpecManual == InitManual /\ [][NextManual]_vars

\* one call of updateGatewayList for one tier, with the users the risk
\* source puts in that tier, in which up to MaxFaults operations fail
InitReplace ==
    /\ InitFrom([level : {[e \in Emails |-> t] : t \in Tiers}, shape : {"plain"}],
                SnapshotsAndLists, 0, MaxFaults)
    /\ api = NoCall
    /\ recon = NoRecon
    /\ manual = NoManual
    /\ config = ValidConfig
    /\ replace \in {[NoReplace EXCEPT !.pc = "ready", !.tier = t] : t \in Tiers}
    /\ pages = NoPages
    /\ second = NoSecond
    /\ cleanup = NoCleanup
    /\ health = NoHealth
    /\ run = NoRun

\* the call of updateGatewayList, from its entry to its return
UpdateList ==
    /\ replace.pc = "ready"
    /\ \E kvOut \in {"ok", "throw"}, infoOut \in {"ok", "reject", "throw"} :
        /\ Cost(kvOut) + Cost(infoOut) <= faultsLeft
        /\ \E fault \in PageFaults, clearOut \in {"ok", "reject", "throw"} :
            /\ Cost(kvOut) + Cost(infoOut) + FaultCost(fault) + Cost(clearOut) <= faultsLeft
            /\ \E addOut \in {"ok", "reject", "throw"}, putOut \in {"ok", "throw"},
                  verify \in PageFaults, flagPut \in {"ok", "throw"} :
                LET t == replace.tier
                    users == filterByLevel(RiskListing(riskSource), t)
                    out == [kv |-> kvOut, info |-> infoOut, fault |-> fault, clear |-> clearOut,
                            add |-> addOut, put |-> putOut, verify |-> verify,
                            flagPut |-> flagPut]
                    cost == Cost(kvOut) + Cost(infoOut) + FaultCost(fault) + Cost(clearOut)
                            + Cost(addOut) + Cost(putOut) + FaultCost(verify) + Cost(flagPut)
                    r == updateGatewayList(kv[t], remote[t], users, out)
                IN  /\ cost <= faultsLeft
                    /\ infoOut # "ok" => "info" \in r.did
                    /\ fault # NoFault => r.fetchExit \in {"break", "catch"}
                    /\ clearOut # "ok" => "clear" \in r.did
                    /\ addOut # "ok" => "add" \in r.did
                    /\ putOut # "ok" => "put" \in r.did
                    /\ verify # NoFault => r.verifyExit \in {"break", "catch"}
                    /\ flagPut # "ok" => "flagPut" \in r.did
                    /\ faultsLeft' = faultsLeft - cost
                    /\ kv' = [kv EXCEPT ![t] = r.state]
                    /\ remote' = [remote EXCEPT ![t] = r.list]
                    /\ replace' = [pc |-> "returned", tier |-> t, result |-> r.result,
                                   did |-> r.did, before |-> remote[t],
                                   target |-> mapEmail(users), faulted |-> cost > 0]
    /\ UNCHANGED <<cycleLocals, api, recon, manual, config, pages, second, cleanup, health, run>>

NextReplace == UpdateList

SpecReplace == InitReplace /\ [][NextReplace]_vars

\* the snapshots and lists after calls of updateGatewayList whose
\* verification found the list different from the target and wrote the
\* drift flag for the tiers of F; the lists still differ, or agree by now
DriftedSnapshotsAndLists ==
    UNION {
        {[kv |-> [t \in Tiers |->
                    IF t \in F
                    THEN reconciliationStateOf(newExpectedStateOf(SnapshotOf(c, t).emails))
                    ELSE SnapshotOf(c, t)],
          remote |-> r] :
            F \in (SUBSET Tiers) \ {{}},
            r \in {[t \in Tiers |-> ToSet(SnapshotOf(c, t).emails)],
                   [t \in Tiers |-> {}],
                   [t \in Tiers |-> Emails \cup {Stale}]} } :
        c \in [Emails -> Levels] }

\* a scheduled cycle and a consistency check, in any interleaving, on
\* snapshots that carry the drift flag; every operation succeeds
InitDrift ==
    /\ InitFrom([level : {[e \in Emails |-> t] : t \in Tiers}, shape : {"plain"}],
                DriftedSnapshotsAndLists, 1, 0)
    /\ api = NoCall
    /\ recon = [NoRecon EXCEPT !.pc = "loop"]
    /\ manual = NoManual
    /\ config = ValidConfig
    /\ replace = NoReplace
    /\ pages = NoPages
    /\ second = NoSecond
    /\ cleanup = NoCleanup
    /\ health = NoHealth
    /\ run = NoRun

NextDrift ==
    StartCycle \/ StoreExpected \/ SyncTier \/ Finish \/ ReconcileList \/ ReconcileRespond

SpecDrift == InitDrift /\ [][NextDrift]_vars

\* one invocation of the scheduled trigger under a configuration that is
\* valid or not, every operation succeeding
InitConfig ==
    /\ InitFrom({[level |-> [e \in Emails |-> "high"], shape |-> "plain"]},
                {[kv |-> [t \in Tiers |-> NoState], remote |-> [t \in Tiers |-> {Stale}]]},
                1, 0)
    /\ api = NoCall
    /\ recon = NoRecon
    /\ manual = NoManual
    /\ replace = NoReplace
    /\ pages = NoPages
    /\ second = NoSecond
    /\ cleanup = NoCleanup
    /\ health = NoHealth
    /\ run = NoRun
    /\ config \in Configs

NextConfig == RejectConfig \/ StartCycle \/ StoreExpected \/ SyncTier \/ Finish

SpecConfig == InitConfig /\ [][NextConfig]_vars

\* one call of fetchAllUserRiskScores against each risk source, or of
\* fetchGatewayListItems against each list, one page request failing or none
InitPages ==
    /\ \/ /\ InitFrom(RiskSources,
                       {[kv |-> [t \in Tiers |-> NoState], remote |-> [t \in Tiers |-> {}]]}, 0, 0)
          /\ pages \in {[NoPages EXCEPT !.fetcher = "risk", !.fault = f] : f \in PageFaults}
       \/ /\ InitFrom({[level |-> [e \in Emails |-> "low"], shape |-> "plain"]},
                       {[kv |-> [t \in Tiers |-> NoState], remote |-> r] : r \in InitialLists},
                       0, 0)
          /\ pages \in {[NoPages EXCEPT !.fetcher = "list", !.tier = t, !.fault = f] :
                            t \in {"high", "medium"}, f \in PageFaults}
    /\ api = NoCall
    /\ recon = NoRecon
    /\ manual = NoManual
    /\ config = ValidConfig
    /\ replace = NoReplace
    /\ second = NoSecond
    /\ cleanup = NoCleanup
    /\ health = NoHealth
    /\ run = NoRun

\* one evaluation of the loop condition of fetchAllUserRiskScores and the
\* iteration it lets in
RiskPage ==
    /\ pages.fetcher = "risk"
    /\ pages.risk.exit = "run"
    /\ pages' = [pages EXCEPT
                    !.risk = RiskStep(@, RiskListing(riskSource), pages.fault),
                    !.asked = IF riskLoopContinues(pages.risk)
                              THEN Append(@, pages.risk.page) ELSE @]
    /\ UNCHANGED <<cycleVars, api, recon, manual, config, replace, second, cleanup, health, run>>

\* one evaluation of the loop condition of fetchGatewayListItems and the
\* iteration it lets in
ListPage ==
    /\ pages.fetcher = "list"
    /\ pages.list.exit = "run"
    /\ pages' = [pages EXCEPT
                    !.list = ListStep(@, ItemsOf(remote[pages.tier]), pages.fault),
                    !.asked = IF listLoopContinues(pages.list)
                              THEN Append(@, pages.list.page) ELSE @]
    /\ UNCHANGED <<cycleVars, api, recon, manual, config, replace, second, cleanup, health, run>>

NextPages == RiskPage \/ ListPage

SpecPages == InitPages /\ [][NextPages]_vars

\* where the scheduled cycle is: before its start, during, after its return
CyclePhase ==
    IF pc = "idle" /\ cyclesLeft > 0 THEN "before"
    ELSE IF pc = "idle" THEN "after" ELSE "during"

\* a scheduled cycle and a second invocation of handleRequest, in any
\* interleaving of their awaits, the risk source changing between the two
\* risk fetches; every call succeeds
InitRace ==
    /\ InitFrom([level : {[e \in Emails |-> t] : t \in Tiers}, shape : {"plain"}],
                {[kv |-> [t \in Tiers |-> NoState], remote |-> r] :
                    r \in {[t \in Tiers |-> {}], [t \in Tiers |-> Emails \cup {Stale}]}},
                1, 0)
    /\ api = NoCall
    /\ recon = NoRecon
    /\ manual = NoManual
    /\ config = ValidConfig
    /\ replace = NoReplace
    /\ pages = NoPages
    /\ second = [NoSecond EXCEPT !.pc = "ready"]
    /\ cleanup = NoCleanup
    /\ health = NoHealth
    /\ run = NoRun

\* Step 1 of the second invocation
SecondStart ==
    /\ second.pc = "ready"
    /\ LET r == fetchAllUserRiskScores(RiskListing(riskSource), NoFault)
       IN  second' = IF proceedAfterFetch(r)
                     THEN [second EXCEPT !.pc = "store", !.idx = 1, !.users = r.users,
                                         !.startedIn = CyclePhase]
                     ELSE [second EXCEPT !.pc = "finished", !.startedIn = CyclePhase,
                                         !.finishedIn = CyclePhase]
    /\ UNCHANGED <<cycleVars, api, recon, manual, config, replace, pages, cleanup, health, run>>

\* Step 3 of the second invocation, for the tier at second.idx
SecondStore ==
    /\ second.pc = "store"
    /\ LET t == TierOrder[second.idx]
           r == storeExpectedStateInKV(kv[t], filterByLevel(second.users, t), t, "ok")
       IN  /\ kv' = [kv EXCEPT ![t] = r.state]
           /\ synced' = [synced EXCEPT ![t] = FALSE]
    /\ second' = IF second.idx < Len(TierOrder)
                 THEN [second EXCEPT !.idx = @ + 1]
                 ELSE [second EXCEPT !.pc = "get", !.idx = 1]
    /\ UNCHANGED <<riskSource, remote, pc, idx, userRiskResult, userRiskScores, storeResult,
                   syncResult, syncObs, cycleOk, prevCycleOk, sourceStable, cyclesLeft,
                   faultsLeft>>
    /\ UNCHANGED <<api, recon, manual, config, replace, pages, cleanup, health, run>>

\* syncGatewayListFromKV of the second invocation up to its first await:
\* the snapshot is read
SecondGet ==
    /\ second.pc = "get"
    /\ LET t == TierOrder[second.idx]
           next == afterSync(second.idx, SyncFailure("No expected state in KV"))
       IN  second' = IF kv[t].present
                     THEN [second EXCEPT !.pc = "fetch", !.expectedState = kv[t]]
                     ELSE [second EXCEPT
                             !.pc = IF next.pc = "sync" THEN "get" ELSE "done",
                             !.idx = next.idx,
                             !.result[t] = SyncFailure("No expected state in KV")]
    /\ UNCHANGED <<cycleVars, api, recon, manual, config, replace, pages, cleanup, health, run>>

\* ... up to its second await: the list is fetched
SecondFetch ==
    /\ second.pc = "fetch"
    /\ LET t == TierOrder[second.idx]
           currentResult == fetchGatewayListItems(remote[t], NoFault)
       IN  second' = [second EXCEPT !.pc = "patch", !.items = currentResult.items]
    /\ UNCHANGED <<cycleVars, api, recon, manual, config, replace, pages, cleanup, health, run>>

\* ... to its return: the diff of the snapshot read and the items fetched
\* is sent as a PATCH, which the store applies to the list as it is by now
SecondPatch ==
    /\ second.pc = "patch"
    /\ LET t == TierOrder[second.idx]
           r == syncGatewayListFromKV(second.expectedState, ToSet(second.items), "ok",
                                      NoFault, "ok")
           next == afterSync(second.idx, r.result)
       IN  /\ remote' = [remote EXCEPT ![t] = IF r.obs.patchSent
                                              THEN ApplyIncremental(@, r.obs.patchBody)
                                              ELSE @]
           /\ synced' = [synced EXCEPT ![t] = FALSE]
           /\ second' = [second EXCEPT
                           !.pc = IF next.pc = "sync" THEN "get" ELSE "done",
                           !.idx = next.idx,
                           !.expectedState = NoState,
                           !.items = <<>>,
                           !.result[t] = r.result]
    /\ UNCHANGED <<riskSource, kv, pc, idx, userRiskResult, userRiskScores, storeResult,
                   syncResult, syncObs, cycleOk, prevCycleOk, sourceStable, cyclesLeft,
                   faultsLeft>>
    /\ UNCHANGED <<api, recon, manual, config, replace, pages, cleanup, health, run>>

\* the second invocation returns
SecondFinish ==
    /\ second.pc = "done"
    /\ second' = [second EXCEPT !.pc = "finished", !.finishedIn = CyclePhase]
    /\ UNCHANGED <<cycleVars, api, recon, manual, config, replace, pages, cleanup, health, run>>

\* the risk source reclassifies one user after one of the two invocations
\* fetched the risk scores and before the other does
SourceChange ==
    /\ ~second.sourceChanged
    /\ (second.pc = "ready") # (CyclePhase = "before")
    /\ \E e \in Emails, l \in Levels :
        /\ l # riskSource.level[e]
        /\ riskSource' = [riskSource EXCEPT !.level[e] = l]
    /\ second' = [second EXCEPT !.sourceChanged = TRUE]
    /\ UNCHANGED <<remote, kv, pc, idx, userRiskResult, userRiskScores, storeResult,
                   syncResult, syncObs, synced, cycleOk, prevCycleOk, sourceStable, cyclesLeft,
                   faultsLeft>>
    /\ UNCHANGED <<api, recon, manual, config, replace, pages, cleanup, health, run>>

NextRace ==
    \/ StartCycle \/ StoreExpected \/ SyncTier \/ Finish
    \/ SecondStart \/ SecondStore \/ SecondGet \/ SecondFetch \/ SecondPatch \/ SecondFinish
    \/ SourceChange

SpecRace == InitRace /\ [][NextRace]_vars

\* one request to /api/force-cleanup, at its call of handleRequest with
\* the Worker's configuration and KV binding; up to MaxFaults operations fail
InitCleanup ==
    /\ InitWith(1, MaxFaults)
    /\ api = NoCall
    /\ recon = NoRecon
    /\ manual = NoManual
    /\ config = ValidConfig
    /\ replace = NoReplace
    /\ pages = NoPages
    /\ second = NoSecond
    /\ cleanup = [pc |-> "inner", response |-> "none"]
    /\ health = NoHealth
    /\ run = NoRun

\* the route after handleRequest returned: the response is built without
\* looking at anything the call did
CleanupRespond ==
    /\ cleanup.pc = "inner"
    /\ pc = "idle"
    /\ cyclesLeft = 0
    /\ cleanup' = [pc |-> "answered", response |-> "success"]
    /\ UNCHANGED <<cycleVars, api, recon, manual, config, replace, pages, second, health, run>>

NextCleanup == StartCycle \/ StoreExpected \/ SyncTier \/ Finish \/ CleanupRespond

SpecCleanup == InitCleanup /\ [][NextCleanup]_vars

\* one request to /api/health, each of the two endpoints answering as it likes
InitHealth ==
    /\ CycleIdle
    /\ api = NoCall
    /\ recon = NoRecon
    /\ manual = NoManual
    /\ config = ValidConfig
    /\ replace = NoReplace
    /\ pages = NoPages
    /\ second = NoSecond
    /\ cleanup = NoCleanup
    /\ health = HealthStart
    /\ run = NoRun

\* the first check: the account endpoint
HealthFirst ==
    /\ health.pc = "first"
    /\ \E resp \in Responses, latency \in 1..MaxLatency :
        LET call == exhaust(CallStart(HealthMaxRetries), resp)
            now == health.clock + elapsedOf(call, latency)
            made == [health EXCEPT !.calls = @ + 1]
        IN  health' = IF call.outcome = "response"
                      THEN [made EXCEPT
                              !.pc = "second", !.clock = now, !.riskStartTime = now,
                              !.checks.cloudflare_api = checkOf(call, now - health.startTime)]
                      ELSE healthCaught(made, now)
    /\ UNCHANGED <<cycleVars, api, recon, manual, config, replace, pages, second, cleanup, run>>

\* the second check, the risk scoring endpoint, and the overall status
HealthSecond ==
    /\ health.pc = "second"
    /\ \E resp \in Responses, latency \in 1..MaxLatency :
        LET call == exhaust(CallStart(HealthMaxRetries), resp)
            now == health.clock + elapsedOf(call, latency)
            made == [health EXCEPT !.calls = @ + 1]
            checks == [health.checks EXCEPT
                         !.risk_scoring_api = checkOf(call, now - health.riskStartTime)]
        IN  health' = IF call.outcome = "response"
                      THEN [made EXCEPT
                              !.pc = "respond", !.clock = now, !.checks = checks,
                              !.status = IF allHealthy(checks) THEN "healthy" ELSE "degraded"]
                      ELSE healthCaught(made, now)
    /\ UNCHANGED <<cycleVars, api, recon, manual, config, replace, pages, second, cleanup, run>>

\* the response: 200 when the status is healthy, 503 otherwise
HealthRespond ==
    /\ health.pc = "respond"
    /\ health' = [health EXCEPT
                     !.pc = "answered",
                     !.total_response_time = health.clock - health.startTime,
                     !.httpStatus = IF health.status = "healthy" THEN 200 ELSE 503]
    /\ UNCHANGED <<cycleVars, api, recon, manual, config, replace, pages, second, cleanup, run>>

NextHealth == HealthFirst \/ HealthSecond \/ HealthRespond

SpecHealth == InitHealth /\ [][NextHealth]_vars

----------------------------------------------------------------------------
(* The cycle request by request: each fetch(url, options) of makeApiRequest
   is a step of its own *)

\* the call without the record of what it met
forget(call) == [call EXCEPT !.history = <<>>, !.waits = <<>>]

\* makeApiRequest(url, options) is called
startCall(r) ==
    [r EXCEPT !.call = CallStart(DefaultMaxRetries), !.calls = @ + 1, !.tries = 0]

\* the call has returned, thrown or fallen off its loop
callOver(call) == call.outcome \in {"response", "throw", "undefined"}

\* what the page loop makes of the finished call for page page
faultOf(call, json, page) ==
    LET kind == pageFaultOf(call, json)
    IN  IF kind = "none" THEN NoFault ELSE [at |-> page, kind |-> kind]

\* handleRequest after the sync of the tier at position i returned
afterSyncOf(r, i) ==
    LET next == afterSync(i, NoSyncResult)
    IN  IF next.pc = "sync"
        THEN [r EXCEPT !.pc = "get", !.idx = next.idx, !.call = NoCall,
                       !.list = LoopStart, !.expectedState = NoState,
                       !.emailsToAdd = <<>>, !.emailsToRemove = <<>>]
        ELSE [r EXCEPT !.pc = "returned", !.idx = next.idx, !.call = NoCall,
                       !.list = LoopStart, !.expectedState = NoState,
                       !.emailsToAdd = <<>>, !.emailsToRemove = <<>>]

\* syncGatewayListFromKV after fetchGatewayListItems returned items: the
\* two sets are built once, then the diff, and the PATCH call when there is
\* something to change
afterListFetch(r, i, items) ==
    LET diffOf(emailsToAdd, emailsToRemove) ==
            IF changesNeeded(emailsToAdd, emailsToRemove)
            THEN startCall([r EXCEPT !.pc = "patch", !.emailsToAdd = emailsToAdd,
                                     !.emailsToRemove = emailsToRemove])
            ELSE afterSyncOf(r, i)
        setsOf(expectedEmails, currentEmails) ==
            diffOf(emailsToAddOf(expectedEmails, currentEmails),
                   emailsToRemoveOf(expectedEmails, currentEmails))
    IN  CHOOSE next \in {setsOf(expectedEmails, currentEmails) :
                             expectedEmails \in {NewSet(r.expectedState.emails)},
                             currentEmails \in {NewSet(items)}} : TRUE

\* the most calls of makeApiRequest that handleRequest makes up to and
\* with the sync of the tier at position i (0: the risk fetch only): one
\* for each page of the risk fetch and, for each tier, one for each page of
\* the list fetch and one for the PATCH
MaxCycleCalls(i) == RiskPageLimit + i * (ListPageLimit + 1)

\* one cycle taken request by request, every request answered as the
\* endpoint likes, every KV operation succeeding or throwing
InitSteps ==
    /\ InitFrom([level : {[e \in Emails |-> "high"]}, shape : {"plain", "big"}],
                {[kv |-> [t \in Tiers |-> NoState], remote |-> r] :
                    r \in {[t \in Tiers |-> {}],
                           [t \in Tiers |-> IF t = "medium" THEN BigList \cup {1} ELSE {}]}},
                0, 0)
    /\ api = NoCall
    /\ recon = NoRecon
    /\ manual = NoManual
    /\ config = ValidConfig
    /\ replace = NoReplace
    /\ pages = NoPages
    /\ second = NoSecond
    /\ cleanup = NoCleanup
    /\ health = NoHealth
    /\ run = [NoRun EXCEPT !.pc = "risk"]

runFrame == <<riskSource, pc, idx, userRiskResult, userRiskScores, storeResult, syncResult,
              syncObs, synced, cycleOk, prevCycleOk, sourceStable, cyclesLeft, faultsLeft,
              api, recon, manual, config, replace, pages, second, cleanup, health>>

\* one pass through the for loop of makeApiRequest: one call of fetch()
RunAttempt ==
    /\ run.call.outcome = "running"
    /\ \E resp \in Responses :
        run' = [run EXCEPT !.call = forget(makeApiRequest(@, resp)), !.tries = @ + 1]
    /\ UNCHANGED <<kv, remote, runFrame>>

\* the loop condition of fetchAllUserRiskScores: the next page is asked
\* for, or the loop is left and handleRequest goes on to store
RunRiskLoop ==
    /\ run.pc = "risk"
    /\ run.call = NoCall
    /\ run' = IF riskLoopContinues(run.risk)
              THEN startCall(run)
              ELSE LET st == RiskStep(run.risk, RiskListing(riskSource), NoFault)
                   IN  [run EXCEPT !.risk = st, !.users = st.all, !.pc = "store", !.idx = 1]
    /\ UNCHANGED <<kv, remote, runFrame>>

\* the rest of an iteration of fetchAllUserRiskScores, after makeApiRequest
\* is over; a failed page makes handleRequest return
RunRiskParse ==
    /\ run.pc = "risk"
    /\ callOver(run.call)
    /\ \E json \in BOOLEAN :
        /\ json \/ run.call.outcome = "response"
        /\ LET st == RiskStep(run.risk, RiskListing(riskSource),
                              faultOf(run.call, json, run.risk.page))
           IN  run' = [run EXCEPT !.risk = st, !.call = NoCall,
                                  !.pc = IF st.exit = "run" THEN "risk" ELSE "returned"]
    /\ UNCHANGED <<kv, remote, runFrame>>

\* storeExpectedStateInKV for the tier at run.idx
RunStore ==
    /\ run.pc = "store"
    /\ \E putOut \in {"ok", "throw"} :
        LET t == TierOrder[run.idx]
        IN  kv' = [kv EXCEPT ![t] =
                      storeExpectedStateInKV(@, filterByLevel(run.users, t), t, putOut).state]
    /\ run' = IF run.idx < Len(TierOrder)
              THEN [run EXCEPT !.idx = @ + 1, !.kvOps = @ + 1]
              ELSE [run EXCEPT !.pc = "get", !.idx = 1, !.kvOps = @ + 1]
    /\ UNCHANGED <<remote, runFrame>>

\* syncGatewayListFromKV for the tier at run.idx, up to the list fetch
RunGet ==
    /\ run.pc = "get"
    /\ \E kvOut \in {"ok", "throw"} :
        LET t == TierOrder[run.idx]
            got == [run EXCEPT !.kvOps = @ + 1]
        IN  run' = IF kvOut = "throw" \/ ~kv[t].present
                   THEN afterSyncOf(got, run.idx)
                   ELSE [got EXCEPT !.pc = "list", !.list = LoopStart, !.expectedState = kv[t]]
    /\ UNCHANGED <<kv, remote, runFrame>>

\* the loop condition of fetchGatewayListItems
RunListLoop ==
    /\ run.pc = "list"
    /\ run.call = NoCall
    /\ run' = IF listLoopContinues(run.list)
              THEN startCall(run)
              ELSE afterListFetch(run, run.idx, run.list.all)
    /\ UNCHANGED <<kv, remote, runFrame>>

\* the rest of an iteration of fetchGatewayListItems; break leaves the loop
\* with the items read so far, an exception makes the sync return
RunListParse ==
    /\ run.pc = "list"
    /\ callOver(run.call)
    /\ \E json \in BOOLEAN :
        /\ json \/ run.call.outcome = "response"
        /\ \E st \in {ListStep(run.list, ItemsOf(remote[TierOrder[run.idx]]),
                                faultOf(run.call, json, run.list.page))} :
            LET read == [run EXCEPT !.list = st, !.call = NoCall]
            IN  run' = IF st.exit = "run" THEN read
                       ELSE IF st.exit = "catch" THEN afterSyncOf(read, run.idx)
                       ELSE afterListFetch(read, run.idx, st.all)
    /\ UNCHANGED <<kv, remote, runFrame>>

\* syncGatewayListFromKV after the PATCH call is over
RunPatch ==
    /\ run.pc = "patch"
    /\ callOver(run.call)
    /\ \E json \in BOOLEAN :
        /\ json \/ run.call.outcome = "response"
        /\ \E patchBody \in {patchBodyOf(run.expectedState, run.emailsToAdd,
                                          run.emailsToRemove)} :
            remote' = [remote EXCEPT ![TierOrder[run.idx]] =
                          IF pageFaultOf(run.call, json) = "none"
                          THEN ApplyIncremental(@, patchBody) ELSE @]
    /\ run' = afterSyncOf(run, run.idx)
    /\ UNCHANGED <<kv, runFrame>>

NextSteps ==
    \/ RunAttempt \/ RunRiskLoop \/ RunRiskParse \/ RunStore \/ RunGet
    \/ RunListLoop \/ RunListParse \/ RunPatch

SpecSteps == InitSteps /\ [][NextSteps]_vars /\ WF_run(NextSteps)

----------------------------------------------------------------------------
(* Properties *)

\* the users of the risk source whose classification is tier t
TierMembers(t) ==
    LET listing == RiskListing(riskSource)
    IN  {listing[i].email : i \in {j \in 1..Len(listing) : listing[j].max_risk_level = t}}

\* C1: after a cycle in which every operation succeeded, each of the three
\* lists holds exactly the users whose current max_risk_level is its tier
C1_CycleReconcilesAllLists ==
    (pc = "done" /\ cycleOk) => \A t \in Tiers : remote[t] = TierMembers(t)

\* C2: while the latest sync of a list returned success and no snapshot write
\* happened since, the list's membership equals the snapshot's identifier set
C2_SyncedListEqualsSnapshot ==
    \A t \in Tiers : synced[t] => remote[t] = ToSet(kv[t].emails)

\* C3: the diff of a sync is toAdd = E minus A and toRemove = A minus E for the
\* expected set E of the snapshot and the fetched set A, and a store applying
\* append = toAdd, remove = toRemove to A ends with exactly E
C3_DiffIsExact ==
    \A t \in Tiers :
        syncObs[t].diffed =>
            LET E == ToSet(syncObs[t].expected)
                A == ToSet(syncObs[t].current)
            IN  /\ E = ToSet(kv[t].emails)
                /\ ToSet(syncObs[t].emailsToAdd) = E \ A
                /\ ToSet(syncObs[t].emailsToRemove) = A \ E
                /\ syncObs[t].patchSent <=> (E # A)
                /\ ApplyIncremental(A, syncObs[t].patchBody) = E

\* the scenario E = {a, b}, A = {b, c}: toAdd = {a}, toRemove = {c}, final {a, b}
C3_Witness ==
    \E t \in Tiers :
        /\ syncObs[t].patchSent
        /\ ToSet(syncObs[t].expected) = {1, 2}
        /\ ToSet(syncObs[t].current) = {2, Stale}
        /\ syncObs[t].emailsToAdd = <<1>>
        /\ syncObs[t].emailsToRemove = <<Stale>>
        /\ remote[t] = {1, 2}

\* C4: a second cycle on an unchanged risk source, after a first cycle in which
\* every operation succeeded, reports added = 0 and removed = 0 for every tier
\* and sends no PATCH
C4_SecondRunIsNoOp ==
    (pc = "done" /\ cycleOk /\ prevCycleOk /\ sourceStable) =>
        \A t \in Tiers :
            /\ syncResult[t].added = 0
            /\ syncResult[t].removed = 0
            /\ ~syncObs[t].patchSent

\* C5: after the snapshots of a cycle are written, every user the risk fetch
\* returned is in the expected set of the tier of its classification and in
\* no other tier's expected set
C5_TierExclusive ==
    (pc \in {"sync", "done"} /\ \A t \in Tiers : storeResult[t].success) =>
        \A i \in 1..Len(userRiskScores) : \A t \in Tiers :
            (userRiskScores[i].email \in ToSet(kv[t].emails))
                <=> (t = userRiskScores[i].max_risk_level)

C5_Witness ==
    /\ pc = "sync"
    /\ \A t \in Tiers : storeResult[t].success
    /\ \E i, j \in 1..Len(userRiskScores) :
        userRiskScores[i].max_risk_level # userRiskScores[j].max_risk_level

\* C6: a successful sync of a tier whose expected set is empty while its list
\* is not sends a mutation and leaves the list empty
C6_EmptyExpectedEmptiesList ==
    \A t \in Tiers :
        (syncResult[t].success /\ syncObs[t].fetched
            /\ Len(syncObs[t].expected) = 0 /\ syncObs[t].before # {})
        => (syncObs[t].patchSent /\ remote[t] = {})

\* C7: at the end of a cycle all three tiers have been stored and synced
\* whatever the other tiers returned, and a tier whose snapshot is present and
\* whose own operations did not fail returned success
C7_TiersIndependent ==
    pc = "done" =>
        \A t \in Tiers :
            /\ storeResult[t].called
            /\ syncResult[t].called
            /\ (kv[t].present /\ ~syncObs[t].faulted) => syncResult[t].success

C7_Witness ==
    /\ pc = "done"
    /\ ~syncResult["high"].success
    /\ syncResult["medium"].success /\ syncObs["medium"].patchSent
    /\ syncResult["low"].success /\ syncObs["low"].patchSent

\* C8: a cycle whose risk fetch fails writes no snapshot and changes no list,
\* and ends there; the store and sync steps run only after a successful fetch
C8_FailedRiskFetchChangesNothing ==
    /\ [](pc \in {"store", "sync", "done"} => userRiskResult.success)
    /\ [][(cyclesLeft' # cyclesLeft /\ ~userRiskResult'.success)
            => (kv' = kv /\ remote' = remote /\ pc' = "idle")]_vars

C8_Witness ==
    /\ pc = "idle"
    /\ userRiskResult.exit \in {"fail", "catch"}
    /\ \E t \in Tiers : remote[t] # {}
    /\ TierMembers("high") # remote["high"]

\* C9: a list fetch in which a page body reported success=false returns a
\* result that carries an error tag
C9_FailedPageTagged ==
    \A t \in Tiers : (syncObs[t].fetched /\ syncObs[t].exit = "break") => syncObs[t].fetchError

\* C10: a sync computes no diff and sends no PATCH from a list fetch in which
\* a page failed
C10_NoDiffFromFailedFetch ==
    \A t \in Tiers :
        (syncObs[t].fetched /\ syncObs[t].exit \in {"break", "catch"})
        => (~syncObs[t].diffed /\ ~syncObs[t].patchSent)

\* the running or finished call met status 429 at every attempt so far
AllRateLimited == \A i \in 1..Len(api.history) : api.history[i].status = 429

\* C11: a call whose every attempt is answered 429 makes exactly maxRetries
\* requests and then stops: it is over when, and only when, maxRetries
\* requests were made
C11_RateLimitedStops ==
    (api.outcome # "none" /\ AllRateLimited) =>
        /\ Len(api.history) <= api.maxRetries
        /\ (api.outcome # "running") <=> (Len(api.history) = api.maxRetries)

C11_Witness ==
    /\ api.maxRetries = DefaultMaxRetries
    /\ api.outcome \notin {"none", "running"}
    /\ AllRateLimited
    /\ Len(api.history) = DefaultMaxRetries

\* C12: against a source that announces a further page on every page read,
\* fetchAllUserRiskScores makes at most RiskPageLimit requests and
\* fetchGatewayListItems at most ListPageLimit, and each then leaves its loop
C12_PageLoopsBounded ==
    /\ userRiskResult.requests <= RiskPageLimit
    /\ userRiskResult.exit # "unfinished"
    /\ userRiskResult.exit = "bound" => userRiskResult.requests = RiskPageLimit
    /\ \A t \in Tiers :
        /\ syncObs[t].requests <= ListPageLimit
        /\ syncObs[t].exit # "unfinished"
        /\ syncObs[t].exit = "bound" => syncObs[t].requests = ListPageLimit

C12_Witness ==
    /\ userRiskResult.exit = "bound"
    /\ userRiskResult.requests = RiskPageLimit
    /\ \E t \in Tiers : syncObs[t].exit = "bound" /\ syncObs[t].requests = ListPageLimit

\* C13: a fetch that reports success (fetchAllUserRiskScores: success;
\* fetchGatewayListItems: a result without error) left its loop because the
\* last page read said page >= total_pages, never because of the page bound
C13_SuccessMeansComplete ==
    /\ userRiskResult.success => userRiskResult.exit = "end"
    /\ \A t \in Tiers :
        (syncObs[t].fetched /\ ~syncObs[t].fetchError) => syncObs[t].exit = "end"

\* C14: handleReconciliation reads only: no step of it changes a snapshot
\* or a remote list
C14_ReconciliationReadOnly ==
    [][(recon' # recon) => (kv' = kv /\ remote' = remote)]_vars

C14_Witness ==
    /\ recon.response = "ok"
    /\ \E t \in Tiers : recon.exam[t].fetched /\ kv[t].present /\ remote[t] # ToSet(kv[t].emails)
    /\ \E t \in Tiers : recon.exam[t].got /\ ~kv[t].present

\* C15: in the report of a completed check, every tier whose snapshot is
\* present and whose list was fetched without failure has an entry, with
\* consistent = (list = expected set) and the sizes of the two sets
C15_ReportEntryPerTier ==
    recon.response = "ok" =>
        \A t \in Tiers :
            (kv[t].present /\ recon.exam[t].fetched /\ recon.exam[t].exit = "end") =>
                /\ recon.reconciliationResults[t].present
                /\ recon.reconciliationResults[t].consistent = (remote[t] = ToSet(kv[t].emails))
                /\ recon.reconciliationResults[t].expectedCount = Cardinality(ToSet(kv[t].emails))
                /\ recon.reconciliationResults[t].actualCount = Cardinality(remote[t])

\* C16: a tier without snapshot gets no report entry (so is not reported
\* inconsistent) and the loop goes on: a check that answers normally has
\* read the snapshot key of all three tiers
C16_AbsentSnapshotSkipped ==
    /\ \A t \in Tiers :
        (recon.exam[t].got /\ ~kv[t].present) =>
            /\ ~recon.reconciliationResults[t].present
            /\ recon.exam[t].next = "continue"
    /\ recon.response = "ok" => \A t \in Tiers : recon.exam[t].got
    /\ \A i \in 1..Len(TierOrder) :
        (recon.pc = "loop" /\ i < recon.idx) => recon.exam[TierOrder[i]].got

C16_Witness ==
    /\ recon.response = "ok"
    /\ ~kv["high"].present
    /\ kv["medium"].present
    /\ recon.exam["medium"].fetched
    /\ ~kv["low"].present

\* C17: no PATCH is sent for a tier in a cycle in which the write of that
\* tier's snapshot did not complete
C17_NoPatchWithoutSnapshotWrite ==
    \A t \in Tiers :
        (storeResult[t].called /\ ~storeResult[t].success) => ~syncObs[t].patchSent

\* C18: a list changes only in the sync step of its tier, by the one PATCH
\* of that step applied as append and remove, and a member that the
\* snapshot holds too is still a member afterwards
C18_OnlyIncrementalChange ==
    [][\A t \in Tiers :
        /\ remote'[t] # remote[t] =>
            /\ pc = "sync" /\ TierOrder[idx] = t
            /\ syncObs'[t].patchSent
            /\ syncResult'[t].method = "PATCH"
            /\ remote'[t] = ApplyIncremental(remote[t], syncObs'[t].patchBody)
        /\ (pc = "sync" /\ TierOrder[idx] = t) =>
            \A e \in remote[t] \cap ToSet(kv[t].emails) : e \in remote'[t]
      ]_vars

C18_Witness ==
    \E t \in Tiers :
        /\ syncResult[t].success
        /\ syncResult[t].method = "PATCH"
        /\ syncObs[t].patchBody.append # <<>>
        /\ syncObs[t].patchBody.remove # <<>>
        /\ \E e \in syncObs[t].before \cap ToSet(syncObs[t].expected) : e \in remote[t]

\* C19: when the store rejects the PATCH, the sync returns success = false
\* with the store's errors and with the numbers of additions and removals
\* of the rejected PATCH
C19_RejectCarriesCounts ==
    \A t \in Tiers :
        syncObs[t].patchOut = "reject" =>
            /\ ~syncResult[t].success
            /\ syncResult[t].error = "errors"
            /\ syncResult[t].added = Len(syncObs[t].emailsToAdd)
            /\ syncResult[t].removed = Len(syncObs[t].emailsToRemove)

\* C20: a request to /api/update-risk-lists that is answered success has
\* written the three snapshots and left every list with the current
\* members of its tier
C20_ManualEqualsScheduled ==
    manual.response = "success" =>
        \A t \in Tiers :
            /\ kv[t].present
            /\ ToSet(kv[t].emails) = TierMembers(t)
            /\ remote[t] = TierMembers(t)

\* C24: a call whose first response has a status that is neither 429 nor
\* 500 or more returns that response after one request, without a wait
C24_FailFastOnOtherStatus ==
    (Len(api.history) >= 1 /\ api.history[1].kind = "http"
        /\ api.history[1].status # 429 /\ api.history[1].status < 500) =>
        /\ api.outcome = "response"
        /\ api.status = api.history[1].status
        /\ Len(api.history) = 1
        /\ api.waits = <<0>>

C24_Witness ==
    /\ api.maxRetries = DefaultMaxRetries
    /\ api.outcome = "response"
    /\ api.history = <<HttpResponse(403, 0)>>
    /\ api.waits = <<0>>

\* the running or finished call met a network error at every attempt so far
AllNetworkErrors == \A i \in 1..Len(api.history) : api.history[i].kind = "net"

\* the waits of a call that retried every attempt but the last with the
\* exponential backoff and did not wait after the last
BackoffBetweenOnly ==
    /\ Len(api.waits) = api.maxRetries
    /\ \A i \in 1..Len(api.waits) :
        api.waits[i] = IF i < api.maxRetries THEN 2 ^ i ELSE 0

\* C25: a call whose every attempt fails at network level makes exactly
\* maxRetries requests, waits 2^attempt seconds between them, and rethrows
\* the error of the last attempt
C25_NetworkErrorsRethrown ==
    (api.outcome # "none" /\ AllNetworkErrors) =>
        /\ Len(api.history) <= api.maxRetries
        /\ (api.outcome # "running") <=> (Len(api.history) = api.maxRetries)
        /\ api.outcome # "running" => (api.outcome = "throw" /\ BackoffBetweenOnly)

C25_Witness ==
    /\ api.maxRetries = DefaultMaxRetries
    /\ api.outcome = "throw"
    /\ AllNetworkErrors
    /\ api.waits = <<2, 4, 0>>

\* the running or finished call met a status of 500 or more at every attempt so far
AllServerErrors ==
    \A i \in 1..Len(api.history) : api.history[i].kind = "http" /\ api.history[i].status >= 500

\* C30: a call whose every attempt is answered 5xx makes exactly maxRetries
\* requests, waits between the attempts and not after the last, and returns
\* the response of the last attempt
C30_ServerErrorsReturnLast ==
    (api.outcome # "none" /\ AllServerErrors) =>
        /\ Len(api.history) <= api.maxRetries
        /\ (api.outcome # "running") <=> (Len(api.history) = api.maxRetries)
        /\ api.outcome # "running" =>
            /\ api.outcome = "response"
            /\ api.status = api.history[Len(api.history)].status
            /\ BackoffBetweenOnly

C30_Witness ==
    /\ api.maxRetries = DefaultMaxRetries
    /\ api.outcome = "response"
    /\ api.history = <<HttpResponse(500, 0), HttpResponse(500, 0), HttpResponse(503, 0)>>
    /\ api.status = 503
    /\ api.waits = <<2, 4, 0>>

\* C29: the emails of a stored snapshot name no identifier twice
C29_SnapshotHasNoDuplicates ==
    \A t \in Tiers :
        kv[t].present => Cardinality(ToSet(kv[t].emails)) = Len(kv[t].emails)

\* C21: after the PATCH of a tier was applied, the list is fetched once more
\* and compared with the snapshot, and the snapshot carries the
\* reconciliation flag when the two differ
C21_PatchIsVerified ==
    \A t \in Tiers :
        (syncObs[t].patchOut = "ok" /\ syncResult[t].success) =>
            /\ syncObs[t].listFetches >= 2
            /\ remote[t] # ToSet(kv[t].emails) => kv[t].reconciliationNeeded

\* C28: a consistency check is answered with a success response also when
\* the snapshot read or the list fetch of one tier failed
C28_CheckNeverFailsAsWhole ==
    recon.pc = "answered" => recon.response = "ok"

\* a well-formed configuration, as the deployment guide describes it: a
\* 32 character hexadecimal account id, a token of 40 or more characters
\* of [A-Za-z0-9_-], three list ids of 36 characters of [a-f0-9-]
WellFormedListId(id) == id.len = 36 /\ id.class \in {"hex", "hexdash"}

WellFormedConfig ==
    /\ config.CLOUDFLARE_ACCOUNT_ID.len = 32 /\ config.CLOUDFLARE_ACCOUNT_ID.class = "hex"
    /\ config.CLOUDFLARE_API_TOKEN.len >= 40
    /\ config.CLOUDFLARE_API_TOKEN.class \in {"hex", "hexdash", "token"}
    /\ WellFormedListId(config.HIGH_RISK_LIST_ID)
    /\ WellFormedListId(config.MEDIUM_RISK_LIST_ID)
    /\ WellFormedListId(config.LOW_RISK_LIST_ID)

ExitUnder(f) ==
    LET kind == pageFaultOf(exhaust(CallStart(DefaultMaxRetries), f.resp), f.json)
    IN  IF kind = "fail" THEN "break" ELSE IF kind = "throw" THEN "catch" ELSE "end"

\* C26: a sync whose list fetch met a page request that failed at every
\* attempt (429, 5xx or network error) returns success = false and sends
\* no PATCH
C26_TransportExhaustionPropagates ==
    \A t \in Tiers : \A f \in TransportFailures :
        (syncObs[t].fetched /\ syncObs[t].faulted /\ syncObs[t].exit = ExitUnder(f)) =>
            /\ ~syncResult[t].success
            /\ ~syncObs[t].patchSent

\* C22: a call of updateGatewayList that found a replace needed and whose
\* every operation was accepted has written the list, fetched it again and
\* compared it with the target; when the two differ the snapshot carries
\* reconciliationNeeded and lastReconciliationAttempt; nothing is written
\* to the list after the comparison
C22_ReplaceIsVerified ==
    (replace.pc = "returned" /\ ~replace.faulted
        /\ replace.before # ToSet(replace.target)) =>
        LET t == replace.tier
        IN  /\ {"clear", "put", "verify", "compare"} \subseteq replace.did
            /\ remote[t] # ToSet(replace.target) =>
                /\ kv[t].reconciliationNeeded
                /\ kv[t].lastReconciliationAttempt
                /\ replace.result.reconciliationNeeded

InPageOrder(st, asked, listing, per) ==
    /\ asked = [i \in 1..Len(asked) |-> i]
    /\ \A i \in 1..Len(asked) : asked[i] <= TotalPages(Len(listing), per)
    /\ st.all = SubSeq(listing, 1, Min((st.page - 1) * per, Len(listing)))
    /\ st.exit = "end" => Len(asked) = TotalPages(Len(listing), per)
    /\ (st.exit = "run" /\ ~st.hasMore) => Len(asked) = TotalPages(Len(listing), per)

\* C31: both fetchers ask for the pages 1, 2, 3, ... in increasing order,
\* each once, append the items of a page after those of the earlier pages,
\* and ask for no page after the one that said page >= total_pages
C31_PagesInOrder ==
    /\ pages.fetcher = "risk" =>
            InPageOrder(pages.risk, pages.asked, RiskListing(riskSource), RiskPerPage)
    /\ pages.fetcher = "list" =>
            InPageOrder(pages.list, pages.asked, ItemsOf(remote[pages.tier]), ListPerPage)

C31_Witness ==
    /\ pages.fetcher = "list"
    /\ pages.list.exit = "end"
    /\ Len(pages.asked) >= 3
    /\ pages.list.all = ItemsOf(remote[pages.tier])

\* C32: a sync that returns success reports added = |expected \ actual|,
\* removed = |actual \ expected| and totalUsers = |expected| for the expected
\* set of the snapshot and the membership of the list it met, and names the
\* method used, whether a PATCH was needed or not
C32_SuccessCarriesCountsAndMethod ==
    \A t \in Tiers :
        syncResult[t].success =>
            LET E == ToSet(syncObs[t].expected)
                A == syncObs[t].before
            IN  /\ syncResult[t].added = Cardinality(E \ A)
                /\ syncResult[t].removed = Cardinality(A \ E)
                /\ syncResult[t].totalUsers = Cardinality(E)
                /\ syncResult[t].method # ""

\* C33: the store step of a tier leaves the snapshots of the other two
\* tiers as they were and, when its write completes, leaves the tier's
\* snapshot with exactly the identifiers of the users passed in, in their
\* order, whatever the snapshot held before (when the write fails, the
\* tier's snapshot is left as it was)
C33_SnapshotReplacedWholesale ==
    [][pc = "store" =>
        LET t == TierOrder[idx]
            users == SelectSeq(userRiskScores, LAMBDA u : u.max_risk_level = t)
        IN  /\ \A u \in Tiers \ {t} : kv'[u] = kv[u]
            /\ storeResult'[t].called
            /\ storeResult'[t].success =>
                /\ kv'[t].present
                /\ kv'[t].emails = [i \in 1..Len(users) |-> users[i].email]
                /\ kv'[t].riskLevel = t
                /\ kv'[t].userCount = Len(users)
            /\ ~storeResult'[t].success => kv'[t] = kv[t]
      ]_vars

C33_Witness ==
    /\ pc = "store"
    /\ idx = 2
    /\ storeResult["high"].success
    /\ kv["high"].emails = <<1, 2>>
    /\ kv["medium"].present
    /\ kv["medium"].emails = <<1>>
    /\ ~storeResult["medium"].called

\* the scheduled cycle and the second invocation have both returned and
\* every call of both succeeded
BothFinished ==
    /\ pc = "idle" /\ cyclesLeft = 0 /\ cycleOk
    /\ second.pc = "finished"
    /\ \A t \in Tiers : second.result[t].success

\* one of the two invocations was running while the other ran
Overlapped == second.startedIn # "after" /\ second.finishedIn # "before"

\* the two invocations were handed different members for tier t
ObservedDifferently(t) ==
    mapEmail(filterByLevel(userRiskScores, t)) # mapEmail(filterByLevel(second.users, t))

\* C34: two invocations of the cycle write the same snapshot keys; when they
\* overlap and observed different members for a tier, both can finish with
\* every call succeeding and leave the tier's list different from its
\* snapshot (the witness), and this happens in no other case
C34_RaceNeedsOverlap ==
    BothFinished =>
        \A t \in Tiers :
            remote[t] # ToSet(kv[t].emails) => (Overlapped /\ ObservedDifferently(t))

C34_Witness ==
    /\ BothFinished
    /\ Overlapped
    /\ \E t \in Tiers : remote[t] # ToSet(kv[t].emails) /\ ObservedDifferently(t)

\* C35: a request to /api/force-cleanup is answered success only after a
\* cycle whose risk fetch succeeded and whose three syncs returned success
C35_CleanupSuccessMeansSynced ==
    cleanup.response = "success" =>
        /\ userRiskResult.success
        /\ \A t \in Tiers : syncResult[t].success

\* C36: a health probe that has answered made both reachability checks and
\* reports a pass/fail status for each of them, whatever the first check met
C36_HealthChecksIndependent ==
    health.pc = "answered" =>
        /\ health.calls = 2
        /\ health.checks.cloudflare_api.status \in {"healthy", "unhealthy"}
        /\ health.checks.risk_scoring_api.status \in {"healthy", "unhealthy"}

\* the tiers whose sync has begun
SyncsBegun ==
    IF run.pc \in {"risk", "store"} THEN 0
    ELSE IF run.pc = "returned" /\ run.risk.exit \in {"fail", "catch"} THEN 0
    ELSE IF run.pc = "returned" THEN Len(TierOrder)
    ELSE run.idx

\* C37: a cycle returns, whatever each request and each KV operation is
\* answered; it calls makeApiRequest at most once for each of the at most
\* RiskPageLimit pages of the risk fetch and, for each of the three tiers,
\* for each of the at most ListPageLimit pages of the list fetch and for
\* the PATCH, and each of these calls makes at most DefaultMaxRetries
\* requests
C37_CycleTerminates ==
    /\ [](/\ run.calls <= MaxCycleCalls(SyncsBegun)
          /\ run.tries <= DefaultMaxRetries
          /\ run.kvOps <= 2 * Len(TierOrder))
    /\ <>(run.pc = "returned")

C37_Witness ==
    /\ run.pc = "returned"
    /\ run.risk.exit = "bound"
    /\ run.calls > RiskPageLimit + ListPageLimit
    /\ run.tries = DefaultMaxRetries
    /\ remote["low"] # {}

\* C38: a call of makeApiRequest that is over has returned a response or
\* thrown an error; it is never over without either
C38_ReturnsResponseOrThrows ==
    api.outcome \notin {"none", "running"} => api.outcome \in {"response", "throw"}

\* no identifier is a member of two of the three lists
ListsDisjoint(lists) ==
    \A t, u \in Tiers : t # u => lists[t] \cap lists[u] = {}

\* C39: in a cycle whose operations all succeed, a sync that finds the three
\* lists without a common member leaves them without a common member
C39_ListsDisjointThroughout ==
    [][(pc = "sync" /\ cycleOk' /\ ListsDisjoint(remote)) => ListsDisjoint(remote')]_vars

\* C40: the sync of a tier that has no snapshot returns success = false with
\* the error of the missing snapshot (or of the failed read), asks the list
\* store for no page and sends no PATCH; the three lists and the three
\* snapshots are as before
C40_NoSnapshotNoEffect ==
    [][(pc = "sync" /\ ~kv[TierOrder[idx]].present) =>
          LET t == TierOrder[idx]
          IN  /\ syncResult'[t].called
              /\ ~syncResult'[t].success
              /\ syncResult'[t].error \in {"No expected state in KV", "exception"}
              /\ ~syncObs'[t].fetched
              /\ syncObs'[t].requests = 0
              /\ ~syncObs'[t].patchSent
              /\ remote' = remote
              /\ kv' = kv]_vars

C40_Witness ==
    /\ pc \in {"sync", "done"}
    /\ \E t \in Tiers :
        /\ ~kv[t].present
        /\ syncResult[t].called
        /\ syncResult[t].error = "No expected state in KV"
        /\ remote[t] # {}
        /\ \E i \in 1..Len(userRiskScores) : userRiskScores[i].max_risk_level = t

====
